---- MODULE Spec2Model ----
(***************************************************************************)
(* Model of the M-Pesa payment reconciliation engine of seekoon-backend:   *)
(* src/src/controllers/paymentController.js (initiateMpesaPayment,         *)
(* mpesaCallback, processMpesaResult / queryMpesaTransaction) working on   *)
(* the Order, Transaction, Cart and Notification collections.               *)
(*                                                                         *)
(* Every request handler is an async function: it runs atomically between  *)
(* two awaits, and several handlers may be in flight at once.  A handler   *)
(* in flight is a record whose pc names the await it is suspended at; the  *)
(* handlers in flight form a bag.  One action is the database operation of *)
(* that await together with the synchronous code that follows it up to the *)
(* next await; the action of a request runs through its first query.       *)
(***************************************************************************)
EXTENDS Integers, Sequences, FiniteSets, Bags, TLC

\* ------------------------------------------------------------------ bounds
NumOrders == 2      \* stored orders
NumProcs == 2       \* request handlers that can be in flight at once
MaxSignals == 2     \* callbacks and poll results handled in one behaviour
MaxFaults == 1      \* persistence operations that fail in one behaviour
MaxInits == 1       \* initiation requests handled in one behaviour
MaxRequests == 4    \* initiation requests the limiter lets through
MaxTime == 3        \* how far time advances, in ticks of half a minute
MaxAttempts == 2    \* payment attempts made for the stored orders

OrderIds == 1..NumOrders

\* ------------------------------------------------------------ JS values
Undefined == "undefined"        \* a missing string-valued field
NoAmount == -1                  \* a missing Amount (undefined / null)
NoOrder == 0                    \* null result of an Order lookup
NoUser == "null"                \* order.user of a guest checkout

CheckoutIds == {"ws_CO_1", "ws_CO_2"}
Users == {"u1"}
Phone1 == "254712345678"

\* The metadata a success signal carries: the Amount, MpesaReceiptNumber and
\* PhoneNumber items, or none of them.
Metas == { [amount |-> 1300, receipt |-> "ABC123", phone |-> Phone1] }
NoMeta == [amount |-> NoAmount, receipt |-> Undefined, phone |-> Undefined]

\* ResultCode values as the gateway may send them: the number 0, the string
\* '0' and a non-zero number (1032 = cancelled by the user).
ResultCodes == {"0:number", "0:string", "1032:number"}

\* resultCode === 0
IsZeroNumber(rc) == rc = "0:number"

\* resultCode === 0 || resultCode === '0'
IsZeroNumberOrString(rc) == rc \in {"0:number", "0:string"}

\* --------------------------------------------------------------- state
VARIABLES
  orders,         \* Order collection: OrderIds -> document
  transactions,   \* Transaction collection: a bag of documents
  notifications,  \* Notification collection: a bag of documents
  carts,          \* Cart collection: user -> number of items
  cartClears,     \* bag of the Cart.findOneAndUpdate calls made
  h,              \* the handlers in flight: a bag of pc and locals
  response,       \* the answer of the handler that ended last
  clock,          \* value of the next `new Date()`
  signals,        \* callbacks and poll results handled so far
  faults,         \* persistence failures injected so far
  env,            \* process.env as the payment controller reads it
  gateway,        \* requests sent to the gateway, in order
  inits,          \* initiation requests handled so far
  ini,            \* the initiation handler: pc and locals
  routed,         \* the requests the router served or handed to a handler
  limiter,        \* stkLimiter's store: address -> hits and reset time
  signed          \* what the last call of generatePassword gave

vars == <<orders, transactions, notifications, carts, cartClears, h,
          response, clock, signals, faults, env, gateway, inits, ini,
          routed, limiter, signed>>

NoPaymentResult ==
  [id |-> Undefined, status |-> Undefined, email_address |-> Undefined]

\* Order.create in createOrder: status 'pending', isPaid false, no payment
\* fields yet.
NewOrder(user, email, items, total) ==
  [user |-> user, userEmail |-> email, items |-> items, totalAmount |-> total,
   paymentReference |-> Undefined, mpesaCheckoutRequestId |-> Undefined,
   isPaid |-> FALSE, paidAt |-> 0, paymentResult |-> NoPaymentResult,
   status |-> "pending"]

NoDoc == NewOrder(NoUser, Undefined, <<>>, 0)

\* ----------------------------------------------------- the collections
\* Order.findOne({ mpesaCheckoutRequestId: cid }): the first stored order
\* whose field equals cid.  The driver sends an undefined filter value as
\* null, and { field: null } matches the documents that lack the field.
FindOne(ords, cid) ==
  LET hits == {o \in OrderIds : ords[o].mpesaCheckoutRequestId = cid}
  IN IF hits = {} THEN NoOrder
     ELSE CHOOSE o \in hits : \A o2 \in hits : o <= o2

\* The paths of a loaded document that assignments changed: Mongoose marks a
\* path modified only when the assigned value differs from the loaded one.
ModifiedPaths(doc, upd) == {f \in DOMAIN upd : upd[f] # doc[f]}

\* A save that writes the whole loaded document back.
OrderSaveWholeDocument(ords, id, doc, upd) ==
  [ords EXCEPT ![id] =
     [f \in DOMAIN @ |-> IF f \in DOMAIN upd THEN upd[f] ELSE doc[f]]]

\* order.save(): $set of the modified paths of the loaded document.
OrderSave(ords, id, doc, upd) ==
  [ords EXCEPT ![id] =
     [f \in DOMAIN @ |-> IF f \in ModifiedPaths(doc, upd) THEN upd[f] ELSE @[f]]]

\* A user identifier that is the placeholder whenever there is no order.
UserEmailForOrderOnly(order, doc, phone) ==
  IF order # NoOrder /\ doc.userEmail # Undefined /\ doc.userEmail # ""
  THEN doc.userEmail
  ELSE "unknown@seekon.com"

\* order?.userEmail || (phoneNumber ? `${phoneNumber}@mpesa.com`
\*                                  : 'unknown@seekon.com')
UserEmailFor(order, doc, phone) ==
  IF order # NoOrder /\ doc.userEmail # Undefined /\ doc.userEmail # ""
  THEN doc.userEmail
  ELSE IF phone # Undefined THEN phone \o "@mpesa.com" ELSE "unknown@seekon.com"

\* order?.paymentReference || checkoutRequestID
ReferenceFor(order, doc, cid) ==
  IF order # NoOrder /\ doc.paymentReference # Undefined
  THEN doc.paymentReference ELSE cid

\* The document handed to Transaction.create on success.  checkoutRequestID
\* is the id of the attempt the record was created for (in the callback path
\* it is stored inside mpesaResponse).
TransactionDoc(order, doc, cid, meta, via) ==
  [userEmail |-> UserEmailFor(order, doc, meta.phone),
   phoneNumber |-> IF meta.phone = Undefined THEN "" ELSE meta.phone,
   method |-> "mpesa",
   amount |-> IF meta.amount = NoAmount THEN 0 ELSE meta.amount,
   status |-> "completed",
   reference |-> ReferenceFor(order, doc, cid),
   checkoutRequestID |-> cid,
   via |-> via]

\* Transaction.create: the collection accepts every record (no uniqueness
\* is enforced on reference).
TransactionCreate(txs, rec) == txs (+) SetToBag({rec})

\* A success path that leaves the order's status as it was.
PaidUpdateKeepsStatus(meta, now) ==
  [isPaid |-> TRUE, paidAt |-> now,
   paymentResult |-> [id |-> meta.receipt, status |-> "Completed",
                      email_address |-> meta.phone]]

\* The fields the success path assigns to the loaded order before save().
PaidUpdate(meta, now) ==
  [isPaid |-> TRUE, paidAt |-> now,
   paymentResult |-> [id |-> meta.receipt, status |-> "Completed",
                      email_address |-> meta.phone],
   status |-> "processing"]

\* A failure path that also withdraws the paid mark.
CancelUpdateUnpaid == [status |-> "cancelled", isPaid |-> FALSE]

\* The field the failure path assigns to the loaded order before save().
CancelUpdate == [status |-> "cancelled"]

\* Notification.create({type: 'NEW_ORDER', message: `... KSh ${amountPaid ||
\* order.totalAmount}`, orderId}); checkoutRequestID records the attempt.
NotificationDoc(order, doc, cid, meta) ==
  [type |-> "NEW_ORDER",
   amount |-> IF meta.amount = NoAmount \/ meta.amount = 0
              THEN doc.totalAmount ELSE meta.amount,
   orderId |-> order,
   checkoutRequestID |-> cid]

\* Cart.findOneAndUpdate({userId}, {items: [], totalItems: 0, totalPrice: 0})
ClearCart(cs, user) == [cs EXCEPT ![user] = 0]

\* ------------------------------------------------------------ handlers
Effects == {"transaction", "order", "cart", "notification"}

Idle ==
  [pc |-> "idle", kind |-> "none", branch |-> "none", cid |-> Undefined,
   meta |-> NoMeta, order |-> NoOrder, doc |-> NoDoc, attempted |-> {}]

NoResponse == [kind |-> "none", code |-> 0, status |-> "none"]

\* A request is accepted while fewer than NumProcs handlers are in flight.
Free == BagCardinality(h) < NumProcs

\* A persistence operation either succeeds or throws; at most MaxFaults throw.
Outcome(ok) == /\ ok \in BOOLEAN
               /\ (~ok) => faults < MaxFaults
               /\ faults' = IF ok THEN faults ELSE faults + 1

\* The handler that was at r goes on to its next await, at rec.
Continue(r, rec) == /\ h' = (h (-) SetToBag({r})) (+) SetToBag({rec})
                    /\ UNCHANGED response

\* A status query whose result was processed reports everything as
\* completed.
ReportedAlwaysCompleted(rec, code) ==
  IF rec.kind = "poll" /\ code = 200 THEN "completed" ELSE "none"

\* data.status of the answer: queryMpesaTransaction answers 200 with status
\* 'completed' when resultCode === 0 || resultCode === '0', the test that
\* chose the branch of processMpesaResult, and with status 'failed'
\* otherwise; the other answers carry no status.
Reported(rec, code) ==
  IF rec.kind = "poll" /\ code = 200
  THEN IF rec.branch = "success" THEN "completed" ELSE "failed"
  ELSE "none"

\* The handler that was at r answers res.status(code).json(...) and ends.
Respond(r, rec, code) ==
  /\ h' = h (-) SetToBag({r})
  /\ response' = [kind |-> rec.kind, code |-> code,
                  status |-> Reported(rec, code)]

\* The handler has started the effect e.
Attempt(rec, e) == [rec EXCEPT !.attempted = @ \cup {e}]

\* ---------------------------------------------------------- mpesaCallback
\* Shapes of the CallbackMetadata of a success callback: a list of
\* {Name, Value} items, no CallbackMetadata at all, or an Item that is not a
\* list of objects (reading it throws a TypeError).
MetaShapes == {"items", "absent", "malformed"}

\* mpesaCallback from the request up to the return of its first query (which
\* request it was handed is the router's doing, see PostMpesaCallback).  A
\* body without Body.stkCallback is acknowledged at once; an exception while
\* reading the payload reaches the outer catch, which answers 500.  On the
\* success branch, order = await Order.findOne(...) is inside its own try: a
\* throw leaves order = null.  On the failure branch a throw or a null
\* result ends the handler with the 200 answer.
mpesaCallback ==
  /\ Free
  /\ signals < MaxSignals
  /\ signals' = signals + 1
  /\ \E hasStk \in BOOLEAN, rc \in ResultCodes,
        cid \in CheckoutIds \cup {Undefined},
        shape \in MetaShapes, m \in Metas, ok \in BOOLEAN :
       LET meta == IF shape = "items" THEN m ELSE NoMeta
           req == [Idle EXCEPT !.kind = "callback"]
           stk == [req EXCEPT !.cid = cid]
           o == IF ok THEN FindOne(orders, cid) ELSE NoOrder
           found == [stk EXCEPT !.order = o,
                       !.doc = IF o = NoOrder THEN NoDoc ELSE orders[o]]
       IN IF ~hasStk
          THEN ok /\ Outcome(ok) /\ Respond(Idle, req, 200)
          ELSE IF IsZeroNumber(rc)
          THEN IF shape = "malformed"
               THEN ok /\ Outcome(ok) /\ Respond(Idle, stk, 500)
               ELSE /\ Outcome(ok)
                    /\ Continue(Idle, [found EXCEPT !.pc = "cb_create",
                                      !.meta = meta, !.branch = "success"])
          ELSE /\ Outcome(ok)
               /\ IF o = NoOrder
                  THEN Respond(Idle, stk, 200)
                  ELSE Continue(Idle, [found EXCEPT !.pc = "cb_fail_save",
                                          !.branch = "failure"])
  /\ UNCHANGED <<orders, transactions, notifications, carts, cartClears,
                 clock, env, gateway, inits, ini>>

\* await Transaction.create(...) inside its own try, then `if (order)`.
CallbackCreateTransaction(r) ==
  /\ r.pc = "cb_create"
  /\ \E ok \in BOOLEAN :
       /\ Outcome(ok)
       /\ transactions' =
            IF ok
            THEN TransactionCreate(transactions,
                   TransactionDoc(r.order, r.doc, r.cid, r.meta,
                                  "callback"))
            ELSE transactions
       /\ LET nxt == Attempt(r, "transaction")
          IN IF r.order # NoOrder
             THEN Continue(r, [nxt EXCEPT !.pc = "cb_save"])
             ELSE Respond(r, nxt, 200)
  /\ UNCHANGED <<orders, notifications, carts, cartClears, clock, signals,
                 env, routed, limiter, signed, gateway, inits, ini>>

\* order.isPaid = true; ...; await order.save().  A throw is caught by the
\* catch that encloses the cart clearing and the notification as well.
CallbackSaveOrder(r) ==
  /\ r.pc = "cb_save"
  /\ clock' = clock + 1
  /\ \E ok \in BOOLEAN :
       /\ Outcome(ok)
       /\ orders' = IF ok
                    THEN OrderSave(orders, r.order, r.doc,
                                   PaidUpdate(r.meta, clock))
                    ELSE orders
       /\ LET nxt == Attempt(r, "order")
          IN IF ~ok THEN Respond(r, nxt, 200)
             ELSE IF r.doc.user # NoUser
             THEN Continue(r, [nxt EXCEPT !.pc = "cb_cart"])
             ELSE Continue(r, [nxt EXCEPT !.pc = "cb_notify"])
  /\ UNCHANGED <<transactions, notifications, carts, cartClears, signals,
                 env, routed, limiter, signed, gateway, inits, ini>>

\* await Cart.findOneAndUpdate(...) inside its own try.
CallbackClearCart(r) ==
  /\ r.pc = "cb_cart"
  /\ \E ok \in BOOLEAN :
       /\ Outcome(ok)
       /\ carts' = IF ok THEN ClearCart(carts, r.doc.user) ELSE carts
       /\ cartClears' =
            cartClears (+) SetToBag({[user |-> r.doc.user,
                                      checkoutRequestID |-> r.cid,
                                      ok |-> ok]})
       /\ Continue(r, [Attempt(r, "cart") EXCEPT !.pc = "cb_notify"])
  /\ UNCHANGED <<orders, transactions, notifications, clock, signals,
                 env, routed, limiter, signed, gateway, inits, ini>>

\* A callback handler in which a failing Notification.create is not caught.
CallbackNotifyUncaught(r) ==
  /\ r.pc = "cb_notify"
  /\ \E ok \in BOOLEAN :
       /\ Outcome(ok)
       /\ notifications' =
            IF ok
            THEN notifications (+) SetToBag({
                   NotificationDoc(r.order, r.doc, r.cid, r.meta)})
            ELSE notifications
       /\ Respond(r, Attempt(r, "notification"), IF ok THEN 200 ELSE 500)
  /\ UNCHANGED <<orders, transactions, carts, cartClears, clock, signals,
                 env, routed, limiter, signed, gateway, inits, ini>>

\* await Notification.create(...) inside its own try, then the 200 answer.
CallbackNotify(r) ==
  /\ r.pc = "cb_notify"
  /\ \E ok \in BOOLEAN :
       /\ Outcome(ok)
       /\ notifications' =
            IF ok
            THEN notifications (+) SetToBag({
                   NotificationDoc(r.order, r.doc, r.cid, r.meta)})
            ELSE notifications
       /\ Respond(r, Attempt(r, "notification"), 200)
  /\ UNCHANGED <<orders, transactions, carts, cartClears, clock, signals,
                 env, routed, limiter, signed, gateway, inits, ini>>

\* order.status = 'cancelled'; await order.save(); then the 200 answer.
CallbackFailSaveOrder(r) ==
  /\ r.pc = "cb_fail_save"
  /\ \E ok \in BOOLEAN :
       /\ Outcome(ok)
       /\ orders' = IF ok
                    THEN OrderSave(orders, r.order, r.doc, CancelUpdate)
                    ELSE orders
       /\ Respond(r, r, 200)
  /\ UNCHANGED <<transactions, notifications, carts, cartClears, clock,
                 signals, env, routed, limiter, signed, gateway, inits, ini>>

\* ------------------------------------------------------ processMpesaResult
\* queryMpesaTransaction from the gateway's answer to the status query on:
\* it reads ResultCode and the metadata (only when CallbackMetadata is
\* present) and calls processMpesaResult, which runs up to the return of its
\* first query.  checkoutRequestId comes from the request body and was
\* checked non-empty.  On the success branch, const order = await
\* Order.findOne(...) is in the try of Transaction.create: a throw skips the
\* creation.  On the failure branch a throw or a null result returns false.
ResultReceived(r, rc, cid, m, ok) ==
  LET req == [Idle EXCEPT !.kind = "poll", !.cid = cid]
      o == IF ok THEN FindOne(orders, cid) ELSE NoOrder
      found == [req EXCEPT !.order = o,
                  !.doc = IF o = NoOrder THEN NoDoc ELSE orders[o]]
  IN /\ Outcome(ok)
     /\ IF IsZeroNumberOrString(rc)
        THEN IF ok
             THEN Continue(r, [found EXCEPT !.pc = "pl_create",
                                  !.meta = m, !.branch = "success"])
             ELSE Continue(r, [req EXCEPT !.pc = "pl_findAgain",
                                !.meta = m, !.branch = "success"])
        ELSE IF o = NoOrder
             THEN Respond(r, [req EXCEPT !.branch = "failure"], 200)
             ELSE Continue(r, [found EXCEPT !.pc = "pl_fail_save",
                                  !.branch = "failure"])

\* The gateway's answer to a status query, taken as given: the result of
\* a query for any CheckoutRequestID arrives and is processed.
processMpesaResult ==
  /\ Free
  /\ signals < MaxSignals
  /\ signals' = signals + 1
  /\ \E rc \in ResultCodes, cid \in CheckoutIds, m \in Metas \cup {NoMeta},
        ok \in BOOLEAN :
       ResultReceived(Idle, rc, cid, m, ok)
  /\ UNCHANGED <<orders, transactions, notifications, carts, cartClears,
                 clock, env, routed, limiter, signed, gateway, inits, ini>>

\* await Transaction.create(...), caught by the same try; the block's
\* `order` goes out of scope.
PollCreateTransaction(r) ==
  /\ r.pc = "pl_create"
  /\ \E ok \in BOOLEAN :
       /\ Outcome(ok)
       /\ transactions' =
            IF ok
            THEN TransactionCreate(transactions,
                   TransactionDoc(r.order, r.doc, r.cid, r.meta,
                                  "query"))
            ELSE transactions
       /\ Continue(r, [Attempt(r, "transaction") EXCEPT
                         !.pc = "pl_findAgain", !.order = NoOrder,
                         !.doc = NoDoc])
  /\ UNCHANGED <<orders, notifications, carts, cartClears, clock, signals,
                 env, routed, limiter, signed, gateway, inits, ini>>

\* Second lookup, `const order = await Order.findOne(...)`, in the try that
\* encloses the order update, the cart clearing and the notification.
PollFindOrderAgain(r) ==
  /\ r.pc = "pl_findAgain"
  /\ \E ok \in BOOLEAN :
       /\ Outcome(ok)
       /\ LET o == IF ok THEN FindOne(orders, r.cid) ELSE NoOrder
          IN IF o = NoOrder
             THEN Respond(r, r, 200)
             ELSE Continue(r, [r EXCEPT !.pc = "pl_save", !.order = o,
                                      !.doc = orders[o]])
  /\ UNCHANGED <<orders, transactions, notifications, carts, cartClears,
                 clock, signals, env, routed, limiter, signed, gateway, inits, ini>>

\* order.isPaid = true; ...; await order.save().
PollSaveOrder(r) ==
  /\ r.pc = "pl_save"
  /\ clock' = clock + 1
  /\ \E ok \in BOOLEAN :
       /\ Outcome(ok)
       /\ orders' = IF ok
                    THEN OrderSave(orders, r.order, r.doc,
                                   PaidUpdate(r.meta, clock))
                    ELSE orders
       /\ LET nxt == Attempt(r, "order")
          IN IF ~ok THEN Respond(r, nxt, 200)
             ELSE IF r.doc.user # NoUser
             THEN Continue(r, [nxt EXCEPT !.pc = "pl_cart"])
             ELSE Continue(r, [nxt EXCEPT !.pc = "pl_notify"])
  /\ UNCHANGED <<transactions, notifications, carts, cartClears, signals,
                 env, routed, limiter, signed, gateway, inits, ini>>

\* await Cart.findOneAndUpdate(...) inside its own try.
PollClearCart(r) ==
  /\ r.pc = "pl_cart"
  /\ \E ok \in BOOLEAN :
       /\ Outcome(ok)
       /\ carts' = IF ok THEN ClearCart(carts, r.doc.user) ELSE carts
       /\ cartClears' =
            cartClears (+) SetToBag({[user |-> r.doc.user,
                                      checkoutRequestID |-> r.cid,
                                      ok |-> ok]})
       /\ Continue(r, [Attempt(r, "cart") EXCEPT !.pc = "pl_notify"])
  /\ UNCHANGED <<orders, transactions, notifications, clock, signals,
                 env, routed, limiter, signed, gateway, inits, ini>>

\* await Notification.create(...) inside its own try; processMpesaResult
\* returns true and queryMpesaTransaction answers 200.
PollNotify(r) ==
  /\ r.pc = "pl_notify"
  /\ \E ok \in BOOLEAN :
       /\ Outcome(ok)
       /\ notifications' =
            IF ok
            THEN notifications (+) SetToBag({
                   NotificationDoc(r.order, r.doc, r.cid, r.meta)})
            ELSE notifications
       /\ Respond(r, Attempt(r, "notification"), 200)
  /\ UNCHANGED <<orders, transactions, carts, cartClears, clock, signals,
                 env, routed, limiter, signed, gateway, inits, ini>>

\* order.status = 'cancelled'; await order.save(); return false.
PollFailSaveOrder(r) ==
  /\ r.pc = "pl_fail_save"
  /\ \E ok \in BOOLEAN :
       /\ Outcome(ok)
       /\ orders' = IF ok
                    THEN OrderSave(orders, r.order, r.doc, CancelUpdate)
                    ELSE orders
       /\ Respond(r, r, 200)
  /\ UNCHANGED <<transactions, notifications, carts, cartClears, clock,
                 signals, env, routed, limiter, signed, gateway, inits, ini>>

\* --------------------------------------------------- initiateMpesaPayment
\* Money is counted in 1/Scale of a shilling, so that amounts and prices can
\* have a fractional part.
Scale == 4
Q(x) == x * Scale

\* A JavaScript value in the place of an amount: undefined, a number, a
\* numeric string, or a string that is no number.
JsUndefined == [type |-> "undefined", q |-> 0]
JsNumber(q) == [type |-> "number", q |-> q]
RawAmounts ==
  { JsUndefined, JsNumber(0), JsNumber(Q(1)), JsNumber(Q(1300)),
    JsNumber(Q(99) + Scale \div 2), JsNumber(-Q(5)),
    [type |-> "string", q |-> Q(100)], [type |-> "text", q |-> 0] }

\* !rawAmount
Falsy(a) == a.type = "undefined" \/ (a.type = "number" /\ a.q = 0)

NaN == [nan |-> TRUE, v |-> 0]

\* Math.round(Number(rawAmount)): a non-numeric value gives NaN, a number
\* is rounded to the nearest integer, halves up.
MathRoundNumber(a) ==
  IF a.type \in {"number", "string"}
  THEN [nan |-> FALSE, v |-> (2 * a.q + Scale) \div (2 * Scale)]
  ELSE NaN

\* order.items.reduce((sum, item) => sum + item.price * item.quantity, 0)
RECURSIVE CalculatedTotal(_)
CalculatedTotal(items) ==
  IF items = <<>> THEN 0
  ELSE CalculatedTotal(SubSeq(items, 1, Len(items) - 1))
       + items[Len(items)].price * items[Len(items)].quantity

\* A recalculation that only fills in a missing amount.
AuthoritativeAmountIfMissing(rawAmount, found, items) ==
  IF found /\ Falsy(rawAmount) THEN JsNumber(CalculatedTotal(items))
  ELSE rawAmount

\* if (order) rawAmount = calculatedTotal; otherwise the caller's amount
\* stays.
AuthoritativeAmount(rawAmount, found, items) ==
  IF found THEN JsNumber(CalculatedTotal(items)) ELSE rawAmount

\* Phone numbers are strings, modelled as sequences of characters.
Digits == {"0", "1", "2", "3", "4", "5", "6", "7", "8", "9"}
IsDigit(c) == c \in Digits

StartsWith(s, pre) == Len(s) >= Len(pre) /\ SubSeq(s, 1, Len(pre)) = pre

\* A normalization that puts 254 in front of a leading '0' and keeps the '0'.
FormatPhoneKeepsZero(rawPhone) ==
  LET digits == SelectSeq(rawPhone, IsDigit)
  IN IF StartsWith(digits, <<"0">>) THEN <<"2", "5", "4">> \o digits
     ELSE digits

\* rawPhone.replace(/\D/g, ''), then a leading '0' becomes '254'.
FormatPhone(rawPhone) ==
  LET digits == SelectSeq(rawPhone, IsDigit)
  IN IF StartsWith(digits, <<"0">>)
     THEN <<"2", "5", "4">> \o SubSeq(digits, 2, Len(digits))
     ELSE digits

Subscriber == <<"7", "1", "2", "3", "4", "5", "6", "7", "8">>
RawPhones ==
  { <<>>,
    <<"0">> \o Subscriber,
    <<"+", "2", "5", "4">> \o Subscriber,
    <<"2", "5", "4">> \o Subscriber,
    <<"0", "7", "1", "2", " ", "3", "4", "5", "-", "6", "7", "8">>,
    Subscriber }

\* process.env: which settings are present, MPESA_ENVIRONMENT and NODE_ENV.
NodeEnvs == {"development", "production"}
Envs ==
  [consumerKey : BOOLEAN, consumerSecret : BOOLEAN, shortcode : BOOLEAN,
   passkey : BOOLEAN, sandbox : BOOLEAN, nodeEnv : NodeEnvs]

LiveEnv == [consumerKey |-> TRUE, consumerSecret |-> TRUE, shortcode |-> TRUE,
            passkey |-> TRUE, sandbox |-> FALSE, nodeEnv |-> "production"]

\* A credentials check that overlooks the short code.
HasCredentialsKeyOnly(e) == e.consumerKey /\ e.consumerSecret

\* hasCredentials: consumer key, consumer secret and short code are set.
HasCredentials(e) == e.consumerKey /\ e.consumerSecret /\ e.shortcode

\* generatePassword throws when the short code is missing or when no passkey
\* is available; in sandbox the built-in passkey is used.
GeneratePasswordThrows(e) == ~e.shortcode \/ (~e.sandbox /\ ~e.passkey)

\* ------------------------------------------------------ generatePassword
\* Strings are sequences of characters.  The values of SHORTCODE and PASSKEY
\* when they are set, and the built-in sandbox passkey (its first eight
\* characters stand for the 64 of the source).
ShortCodeValue ==
  <<"1", "7", "4", "3", "7", "9">>
PasskeyValue ==
  <<"a", "b", "1", "2", "f">>
DefaultPasskey ==
  <<"b", "f", "b", "2", "7", "9", "f", "9">>

\* new Date().toISOString() at the times generatePassword is called.
IsoDates ==
  {
    <<"2", "0", "2", "6", "-", "1", "1", "-", "0", "3", "T", "1",
      "4", ":", "2", "6", ":", "4", "2", ".", "1", "2", "3", "Z">>,
    <<"2", "0", "2", "5", "-", "0", "1", "-", "3", "1", "T", "2",
      "3", ":", "5", "9", ":", "0", "7", ".", "0", "0", "0", "Z">>,
    <<"2", "0", "2", "4", "-", "0", "2", "-", "2", "9", "T", "0",
      "0", ":", "0", "0", ":", "0", "0", ".", "9", "9", "9", "Z">> }

\* .replace(/[^0-9]/g, '').slice(0, -3): the digits without the last three.
Timestamp(iso) ==
  LET digits == SelectSeq(iso, IsDigit)
  IN SubSeq(digits, 1, Len(digits) - 3)

\* Buffer.from(string): the character codes of digits and of the letters a
\* to f, the characters a short code, a passkey and a timestamp consist of.
HexChars ==
  <<"0", "1", "2", "3", "4", "5", "6", "7", "8", "9", "a", "b", "c",
    "d", "e", "f">>
CharCode(c) ==
  LET i == CHOOSE k \in 1..16 : HexChars[k] = c
  IN IF i <= 10 THEN 47 + i ELSE 86 + i
Bytes(str) == [i \in 1..Len(str) |-> CharCode(str[i])]

\* .toString('base64'): three bytes give four characters of the alphabet; a
\* last group of one or two bytes is filled up with '='.
Base64Alphabet ==
  <<"A", "B", "C", "D", "E", "F", "G", "H", "I", "J", "K", "L", "M",
    "N", "O", "P", "Q", "R", "S", "T", "U", "V", "W", "X", "Y", "Z",
    "a", "b", "c", "d", "e", "f", "g", "h", "i", "j", "k", "l", "m",
    "n", "o", "p", "q", "r", "s", "t", "u", "v", "w", "x", "y", "z",
    "0", "1", "2", "3", "4", "5", "6", "7", "8", "9", "+", "/">>
Sextet(v) == Base64Alphabet[v + 1]

RECURSIVE Base64(_)
Base64(bytes) ==
  IF bytes = <<>> THEN <<>>
  ELSE LET b1 == bytes[1]
       IN IF Len(bytes) = 1
          THEN <<Sextet(b1 \div 4), Sextet((b1 % 4) * 16), "=", "=">>
          ELSE LET b2 == bytes[2]
               IN IF Len(bytes) = 2
                  THEN <<Sextet(b1 \div 4),
                         Sextet((b1 % 4) * 16 + b2 \div 16),
                         Sextet((b2 % 16) * 4), "=">>
                  ELSE LET b3 == bytes[3]
                       IN <<Sextet(b1 \div 4),
                            Sextet((b1 % 4) * 16 + b2 \div 16),
                            Sextet((b2 % 16) * 4 + b3 \div 64),
                            Sextet(b3 % 64)>>
                          \o Base64(SubSeq(bytes, 4, Len(bytes)))

NotSigned == [error |-> "none", password |-> <<>>, timestamp |-> <<>>]
Thrown(what) == [NotSigned EXCEPT !.error = what]

\* A signer that takes the configured passkey in every environment.
generatePasswordConfiguredKey(e, iso) ==
  LET timestamp == Timestamp(iso)
      shortcode == IF e.shortcode THEN ShortCodeValue ELSE <<>>
      passkey == IF e.passkey THEN PasskeyValue ELSE <<>>
      finalPasskey == passkey
  IN IF shortcode = <<>> THEN Thrown("shortcode")
     ELSE IF finalPasskey = <<>> THEN Thrown("passkey")
     ELSE [error |-> "none",
           password |-> Base64(Bytes(shortcode \o finalPasskey \o timestamp)),
           timestamp |-> timestamp]

\* generatePassword: the timestamp, the short code, the passkey (in sandbox
\* the built-in one); a throw without short code or without passkey; else
\* the base64 of the three in a row, and the timestamp.
generatePassword(e, iso) ==
  LET timestamp == Timestamp(iso)
      shortcode == IF e.shortcode THEN ShortCodeValue ELSE <<>>
      passkey == IF e.passkey THEN PasskeyValue ELSE <<>>
      finalPasskey == IF e.sandbox THEN DefaultPasskey ELSE passkey
  IN IF shortcode = <<>> THEN Thrown("shortcode")
     ELSE IF finalPasskey = <<>> THEN Thrown("passkey")
     ELSE [error |-> "none",
           password |-> Base64(Bytes(shortcode \o finalPasskey \o timestamp)),
           timestamp |-> timestamp]

\* generatePassword() called at some time.
SignRequest ==
  /\ \E iso \in IsoDates : signed' = generatePassword(env, iso)
  /\ UNCHANGED <<orders, transactions, notifications, carts, cartClears, h,
                 response, clock, signals, faults, env, gateway, inits, ini,
                 routed, limiter>>

\* orderId values of a request: none, a stored order, or an id no order has.
UnknownOrder == NumOrders + 1
OrderIdInputs == {NoOrder} \cup OrderIds \cup {UnknownOrder}

\* An amount for the push that is the final amount in every environment.
AmountForSTKAlwaysFinal(e, finalAmount) == finalAmount

\* const amountForSTK = isSandbox ? 1 : finalAmount
AmountForSTK(e, finalAmount) ==
  IF e.sandbox THEN [nan |-> FALSE, v |-> 1] ELSE finalAmount

IniIdle ==
  [pc |-> "idle", rawPhone |-> <<>>, userEmail |-> FALSE,
   rawAmount |-> JsUndefined,
   callerAmount |-> JsUndefined, orderId |-> NoOrder, found |-> FALSE,
   phone |-> <<>>, finalAmount |-> NaN, reference |-> Undefined,
   response |-> 0, mock |-> FALSE, checkoutRequestID |-> Undefined]

\* The answer of the initiation handler to the request r; what the handler
\* derived goes out of scope, the request and the amount decided stay on
\* record.
IniRespond(r, code, mock, cid) ==
  [IniIdle EXCEPT !.pc = "done", !.response = code, !.mock = mock,
                  !.checkoutRequestID = cid,
                  !.rawPhone = r.rawPhone, !.userEmail = r.userEmail,
                  !.rawAmount = r.rawAmount,
                  !.orderId = r.orderId, !.found = r.found]

\* A request to the gateway.  orderId, found, callerAmount and rawAmount (the
\* amount decided, before rounding) record the initiation request a push
\* belongs to; CheckoutRequestID is the id the gateway answered the push
\* with; answer is the gateway's answer to a token request, to a status
\* query or to a push ("yes" for a 2xx response, "error" for a request that
\* failed).
TokenRequest ==
  [request |-> "token", Amount |-> NaN, PartyA |-> <<>>,
   AccountReference |-> Undefined, CheckoutRequestID |-> Undefined,
   orderId |-> NoOrder, found |-> FALSE, callerAmount |-> JsUndefined,
   rawAmount |-> JsUndefined, answer |-> "pending"]

\* The gateway's answer to the oldest token request still open: the token
\* (a 2xx response), or a failure, which getMpesaAccessToken rethrows.
TokenAnswered(log, ok) ==
  LET open == {i \in DOMAIN log : /\ log[i].request = "token"
                                  /\ log[i].answer = "pending"}
      i == CHOOSE i \in open : \A j \in open : i <= j
  IN [log EXCEPT ![i].answer = IF ok THEN "yes" ELSE "no"]

PushRequest(e, r) ==
  [request |-> "push", Amount |-> AmountForSTK(e, r.finalAmount),
   PartyA |-> r.phone, AccountReference |-> r.reference,
   CheckoutRequestID |-> Undefined,
   orderId |-> r.orderId, found |-> r.found, callerAmount |-> r.callerAmount,
   rawAmount |-> r.rawAmount, answer |-> "pending"]

\* reference = `MPESA${Date.now()}${random hex}`: a fresh value per request.
Reference(n) == "MPESA" \o ToString(n)

\* The CheckoutRequestID the gateway issues for the n-th accepted push.
IssuedId(n) == "ws_CO_" \o ToString(n)

\* The pushes the gateway has accepted so far.
Accepted ==
  Cardinality({i \in DOMAIN gateway :
                 /\ gateway[i].request = "push"
                 /\ gateway[i].CheckoutRequestID # Undefined})

\* A handler that gives up when the order of its orderId was not loaded.
PrepareOrderRequired(r, n) ==
  LET phone == FormatPhone(r.rawPhone)
  IN IF r.orderId # NoOrder /\ ~r.found
     THEN IniRespond(r, 500, FALSE, Undefined)
     ELSE IF Falsy(r.rawAmount) THEN IniRespond(r, 400, FALSE, Undefined)
     ELSE IF ~StartsWith(phone, <<"2", "5", "4">>)
     THEN IniRespond(r, 400, FALSE, Undefined)
     ELSE IF ~HasCredentials(env)
     THEN IniRespond(r, 200, TRUE, "MOCK_CHECKOUT_123")
     ELSE [r EXCEPT !.pc = "in_token", !.phone = phone,
                    !.finalAmount = MathRoundNumber(r.rawAmount),
                    !.reference = Reference(NumOrders + n)]

\* initiateMpesaPayment from the amount check to the token request, for the
\* n-th request handled: amount required, phone formatted and checked,
\* amount rounded, reference generated (a value no stored order carries),
\* mock answer without credentials.
Prepare(r, n) ==
  LET phone == FormatPhone(r.rawPhone)
  IN IF Falsy(r.rawAmount) THEN IniRespond(r, 400, FALSE, Undefined)
     ELSE IF ~StartsWith(phone, <<"2", "5", "4">>)
     THEN IniRespond(r, 400, FALSE, Undefined)
     ELSE IF ~HasCredentials(env)
     THEN IniRespond(r, 200, TRUE, "MOCK_CHECKOUT_123")
     ELSE [r EXCEPT !.pc = "in_token", !.phone = phone,
                    !.finalAmount = MathRoundNumber(r.rawAmount),
                    !.reference = Reference(NumOrders + n)]

\* A handler that fetches the access token before it looks at the request.
SendTokenBeforeChecks(r) ==
  gateway' = IF r.pc \in {"in_token", "done"}
             THEN Append(gateway, TokenRequest)
             ELSE gateway

\* The token request goes out when the handler reaches getMpesaAccessToken.
SendToken(r) ==
  gateway' = IF r.pc = "in_token" THEN Append(gateway, TokenRequest)
             ELSE gateway

\* The handler up to its first await, for one request body: phone and email
\* are required; with an orderId the order is looked up first.  A request
\* turned away for its phone or email is on record with these two, the only
\* fields looked at.
Initiate(rawPhone, rawAmount, userEmail, orderId) ==
  /\ ini.pc \in {"idle", "done"}
  /\ inits' = inits + 1
  /\ LET r == [IniIdle EXCEPT !.rawPhone = rawPhone,
                              !.userEmail = userEmail,
                              !.rawAmount = rawAmount,
                              !.callerAmount = rawAmount,
                              !.orderId = orderId]
         next == IF rawPhone = <<>> \/ ~userEmail
                 THEN IniRespond([IniIdle EXCEPT !.rawPhone = rawPhone,
                                                 !.userEmail = userEmail],
                                 400, FALSE, Undefined)
                 ELSE IF orderId # NoOrder
                 THEN [r EXCEPT !.pc = "in_findById"]
                 ELSE Prepare(r, inits + 1)
     IN ini' = next /\ SendToken(next)
  /\ UNCHANGED <<orders, transactions, notifications, carts, cartClears, h,
                 response, clock, signals, faults, env>>

\* initiateMpesaPayment called with any request body.
initiateMpesaPayment ==
  /\ inits < MaxInits
  /\ \E rawPhone \in RawPhones, rawAmount \in RawAmounts,
        userEmail \in BOOLEAN, orderId \in OrderIdInputs :
       Initiate(rawPhone, rawAmount, userEmail, orderId)
  /\ UNCHANGED <<routed, limiter, signed>>

\* initiateMpesaPayment called for a stored order by a caller who gives a
\* phone number and an email: one of several attempts to pay the order.
InitiateForOrder ==
  /\ inits < MaxAttempts
  /\ \E rawAmount \in {JsUndefined, JsNumber(Q(1300))}, orderId \in OrderIds :
       Initiate(<<"0">> \o Subscriber, rawAmount, TRUE, orderId)
  /\ UNCHANGED <<routed, limiter, signed>>

\* const order = await Order.findById(orderId) in its own try: a throw or a
\* null result keeps the caller's amount.
InitiateFindOrder ==
  /\ ini.pc = "in_findById"
  /\ \E ok \in BOOLEAN :
       /\ Outcome(ok)
       /\ LET found == ok /\ ini.orderId \in OrderIds
              items == IF found THEN orders[ini.orderId].items ELSE <<>>
              next == Prepare([ini EXCEPT
                         !.found = found,
                         !.rawAmount =
                            AuthoritativeAmount(ini.rawAmount, found, items)],
                         inits)
          IN ini' = next /\ SendToken(next)
  /\ UNCHANGED <<orders, transactions, notifications, carts, cartClears, h,
                 response, clock, signals, env, routed, limiter, signed, inits>>

\* const accessToken = await getMpesaAccessToken(); generatePassword(); the
\* push request is built and sent.  A failed token request or a throwing
\* generatePassword reaches the outer catch: 500.
InitiateGetToken ==
  /\ ini.pc = "in_token"
  /\ \E ok \in BOOLEAN :
       IF ok /\ ~GeneratePasswordThrows(env)
       THEN /\ ini' = [ini EXCEPT !.pc = "in_push"]
            /\ gateway' = Append(TokenAnswered(gateway, TRUE),
                                 PushRequest(env, ini))
       ELSE /\ ini' = IniRespond(ini, 500, FALSE, Undefined)
            /\ gateway' = TokenAnswered(gateway, ok)
  /\ UNCHANGED <<orders, transactions, notifications, carts, cartClears, h,
                 response, clock, signals, faults, env, routed, limiter, signed, inits>>

\* A handler that answers 200 whatever became of the push.
InitiatePushErrorUnnoticed ==
  /\ ini.pc = "in_push"
  /\ \E result \in {"accepted", "noId", "error"} :
       LET id == IF result = "accepted" THEN IssuedId(Accepted + 1)
                 ELSE Undefined
       IN /\ gateway' = [gateway EXCEPT
                           ![Len(gateway)].CheckoutRequestID = id,
                           ![Len(gateway)].answer =
                              IF result = "error" THEN "error" ELSE "yes"]
          /\ ini' =
               IF ini.orderId # NoOrder /\ id # Undefined
               THEN [ini EXCEPT !.pc = "in_update", !.checkoutRequestID = id]
               ELSE IniRespond(ini, 200, FALSE, id)
  /\ UNCHANGED <<orders, transactions, notifications, carts, cartClears, h,
                 response, clock, signals, faults, env, routed, limiter, signed, inits>>

\* const response = await axios.post(stkPushUrl, ...): the gateway accepts
\* the push and issues a CheckoutRequestID, or answers without one, or the
\* request fails (error response, network failure), which reaches the outer
\* catch: 500.  With an orderId and a CheckoutRequestID the order is updated
\* before the answer.
InitiatePush ==
  /\ ini.pc = "in_push"
  /\ \E result \in {"accepted", "noId", "error"} :
       LET id == IF result = "accepted" THEN IssuedId(Accepted + 1)
                 ELSE Undefined
       IN /\ gateway' = [gateway EXCEPT
                           ![Len(gateway)].CheckoutRequestID = id,
                           ![Len(gateway)].answer =
                              IF result = "error" THEN "error" ELSE "yes"]
          /\ ini' =
               IF result = "error" THEN IniRespond(ini, 500, FALSE, Undefined)
               ELSE IF ini.orderId # NoOrder /\ id # Undefined
               THEN [ini EXCEPT !.pc = "in_update", !.checkoutRequestID = id]
               ELSE IniRespond(ini, 200, FALSE, id)
  /\ UNCHANGED <<orders, transactions, notifications, carts, cartClears, h,
                 response, clock, signals, faults, env, routed, limiter, signed, inits>>

\* A handler that marks the order paid when it stores the CheckoutRequestID.
InitiateSaveCheckoutMarksPaid ==
  /\ ini.pc = "in_update"
  /\ \E ok \in BOOLEAN :
       /\ Outcome(ok)
       /\ orders' =
            IF ok /\ ini.orderId \in OrderIds
            THEN [orders EXCEPT ![ini.orderId] =
                    [@ EXCEPT !.mpesaCheckoutRequestId = ini.checkoutRequestID,
                              !.paymentReference = ini.reference,
                              !.isPaid = TRUE]]
            ELSE orders
       /\ ini' = IniRespond(ini, 200, FALSE, ini.checkoutRequestID)
  /\ UNCHANGED <<transactions, notifications, carts, cartClears, h, response,
                 clock, signals, env, routed, limiter, signed, gateway, inits>>

\* await Order.findByIdAndUpdate(orderId, {mpesaCheckoutRequestId,
\* paymentReference}) in its own try, then the 200 answer.
InitiateSaveCheckout ==
  /\ ini.pc = "in_update"
  /\ \E ok \in BOOLEAN :
       /\ Outcome(ok)
       /\ orders' =
            IF ok /\ ini.orderId \in OrderIds
            THEN [orders EXCEPT ![ini.orderId] =
                    [@ EXCEPT !.mpesaCheckoutRequestId = ini.checkoutRequestID,
                              !.paymentReference = ini.reference]]
            ELSE orders
       /\ ini' = IniRespond(ini, 200, FALSE, ini.checkoutRequestID)
  /\ UNCHANGED <<transactions, notifications, carts, cartClears, h, response,
                 clock, signals, env, routed, limiter, signed, gateway, inits>>

\* ------------------------------------------ one signal, run to completion
\* What a signal carries: the result code, the CheckoutRequestID and the
\* metadata; lookupOk tells whether the Order.findOne calls of the run
\* return or throw.
ResolveInputs ==
  [rc : ResultCodes, cid : CheckoutIds, meta : Metas \cup {NoMeta},
   lookupOk : BOOLEAN]

\* The collections a handler works on.
Stored ==
  [orders |-> orders, transactions |-> transactions,
   notifications |-> notifications, carts |-> carts,
   cartClears |-> cartClears]

\* The success branch from `if (order)` on, the same statements in both
\* handlers: update and save the order, clear the user's cart, notify.
MarkPaid(s, o, in, now) ==
  IF o = NoOrder THEN s
  ELSE LET user == s.orders[o].user
       IN [s EXCEPT
             !.orders = OrderSave(@, o, s.orders[o], PaidUpdate(in.meta, now)),
             !.carts = IF user # NoUser THEN ClearCart(@, user) ELSE @,
             !.cartClears =
                IF user # NoUser
                THEN @ (+) SetToBag({[user |-> user,
                                      checkoutRequestID |-> in.cid,
                                      ok |-> TRUE]})
                ELSE @,
             !.notifications =
                @ (+) SetToBag({NotificationDoc(o, s.orders[o], in.cid,
                                                in.meta)})]

\* The failure branch, the same statements in both handlers.
MarkCancelled(s, o) ==
  IF o = NoOrder THEN s
  ELSE [s EXCEPT !.orders = OrderSave(@, o, s.orders[o], CancelUpdate)]

\* mpesaCallback run from the request to its answer with no other handler
\* in between: a throwing lookup leaves order = null, the Transaction is
\* created all the same.
CallbackResolve(s, in, now) ==
  LET o == IF in.lookupOk THEN FindOne(s.orders, in.cid) ELSE NoOrder
      doc == IF o = NoOrder THEN NoDoc ELSE s.orders[o]
  IN IF IsZeroNumber(in.rc)
     THEN MarkPaid([s EXCEPT !.transactions =
                       TransactionCreate(@, TransactionDoc(o, doc, in.cid,
                                                           in.meta, "callback"))],
                   o, in, now)
     ELSE MarkCancelled(s, o)

\* processMpesaResult run from its call to its return with no other handler
\* in between: a throwing first lookup skips Transaction.create, a throwing
\* second lookup skips the order update.
PollResolve(s, in, now) ==
  LET o == IF in.lookupOk THEN FindOne(s.orders, in.cid) ELSE NoOrder
      doc == IF o = NoOrder THEN NoDoc ELSE s.orders[o]
  IN IF IsZeroNumberOrString(in.rc)
     THEN MarkPaid(IF in.lookupOk
                   THEN [s EXCEPT !.transactions =
                           TransactionCreate(@, TransactionDoc(o, doc, in.cid,
                                                               in.meta, "query"))]
                   ELSE s,
                   o, in, now)
     ELSE MarkCancelled(s, o)

\* A run leaves the collections as t.
Store(t) ==
  /\ orders' = t.orders
  /\ transactions' = t.transactions
  /\ notifications' = t.notifications
  /\ carts' = t.carts
  /\ cartClears' = t.cartClears

\* A callback handled from start to end.
ResolveViaCallback ==
  /\ signals < MaxSignals
  /\ signals' = signals + 1
  /\ clock' = clock + 1
  /\ \E in \in ResolveInputs : Store(CallbackResolve(Stored, in, clock))
  /\ response' = [kind |-> "callback", code |-> 200, status |-> "none"]
  /\ UNCHANGED <<h, faults, env, gateway, inits, ini, routed, limiter, signed>>

\* A poll result handled from start to end.
ResolveViaPoll ==
  /\ signals < MaxSignals
  /\ signals' = signals + 1
  /\ clock' = clock + 1
  /\ \E in \in ResolveInputs :
       /\ Store(PollResolve(Stored, in, clock))
       /\ response' =
            [kind |-> "poll", code |-> 200,
             status |-> IF IsZeroNumberOrString(in.rc) THEN "completed"
                        ELSE "failed"]
  /\ UNCHANGED <<h, faults, env, gateway, inits, ini, routed, limiter, signed>>

\* -------------------------------------------------- queryMpesaTransaction
\* getMpesaAccessToken throws before any request when the consumer key or
\* the consumer secret is missing.
TokenCredentials(e) == e.consumerKey /\ e.consumerSecret

\* The status query for a CheckoutRequestID as it is sent to the gateway.
QueryRequest(cid) ==
  [TokenRequest EXCEPT !.request = "query", !.CheckoutRequestID = cid,
                       !.answer = "pending"]

\* The gateway's answer a to the oldest open status query for cid: a
\* ResultCode, or "error" for a request that failed.
QueryAnswered(log, cid, a) ==
  LET open == {i \in DOMAIN log : /\ log[i].request = "query"
                                  /\ log[i].CheckoutRequestID = cid
                                  /\ log[i].answer = "pending"}
      i == CHOOSE i \in open : \A j \in open : i <= j
  IN [log EXCEPT ![i].answer = a]

\* The status query handler up to its first await: checkoutRequestId is
\* required and the three credentials must be set (400 otherwise); then the
\* token request goes out.
queryMpesaTransaction ==
  /\ Free
  /\ signals < MaxSignals
  /\ signals' = signals + 1
  /\ \E cid \in CheckoutIds \cup {Undefined} :
       LET req == [Idle EXCEPT !.kind = "poll", !.cid = cid]
       IN IF cid = Undefined \/ ~HasCredentials(env)
          THEN Respond(Idle, req, 400) /\ UNCHANGED gateway
          ELSE IF ~TokenCredentials(env)
          THEN Respond(Idle, req, 500) /\ UNCHANGED gateway
          ELSE /\ Continue(Idle, [req EXCEPT !.pc = "q_token"])
               /\ gateway' = Append(gateway, TokenRequest)
  /\ UNCHANGED <<orders, transactions, notifications, carts, cartClears,
                 clock, faults, env, routed, limiter, signed, inits, ini>>

\* A handler that sends the status query whatever became of the token.
QueryGetTokenUnchecked(r) ==
  /\ r.pc = "q_token"
  /\ \E ok \in BOOLEAN :
       /\ Continue(r, [r EXCEPT !.pc = "q_post"])
       /\ gateway' = Append(TokenAnswered(gateway, ok), QueryRequest(r.cid))
  /\ UNCHANGED <<orders, transactions, notifications, carts, cartClears,
                 clock, signals, faults, env, routed, limiter, signed, inits, ini>>

\* const accessToken = await getMpesaAccessToken(); generatePassword(); the
\* status query is built and sent.  A failed token request or a throwing
\* generatePassword reaches the catch: 500.
QueryGetToken(r) ==
  /\ r.pc = "q_token"
  /\ \E ok \in BOOLEAN :
       IF ok /\ ~GeneratePasswordThrows(env)
       THEN /\ Continue(r, [r EXCEPT !.pc = "q_post"])
            /\ gateway' = Append(TokenAnswered(gateway, TRUE),
                                 QueryRequest(r.cid))
       ELSE /\ Respond(r, r, 500)
            /\ gateway' = TokenAnswered(gateway, ok)
  /\ UNCHANGED <<orders, transactions, notifications, carts, cartClears,
                 clock, signals, faults, env, routed, limiter, signed, inits, ini>>

\* A handler that takes a failed status query for a failed payment.
QueryPostErrorIsFailure(r) ==
  /\ r.pc = "q_post"
  /\ \/ \E in \in ResolveInputs :
          /\ in.cid = r.cid /\ in.rc = "1032:number" /\ in.lookupOk
          /\ Respond(r, r, 500)
          /\ gateway' = QueryAnswered(gateway, r.cid, "error")
          /\ Store(PollResolve(Stored, in, clock))
          /\ UNCHANGED <<clock, faults>>
     \/ \E in \in ResolveInputs :
          /\ in.cid = r.cid
          /\ Outcome(in.lookupOk)
          /\ gateway' = QueryAnswered(gateway, r.cid, in.rc)
          /\ Store(PollResolve(Stored, in, clock))
          /\ clock' = clock + 1
          /\ Respond(r, [r EXCEPT !.branch =
                            IF IsZeroNumberOrString(in.rc) THEN "success"
                            ELSE "failure"], 200)
  /\ UNCHANGED <<signals, env, routed, limiter, signed, inits, ini>>

\* const response = await axios.post(queryUrl, ...): the request fails
\* (error response, network failure), which reaches the catch: 500; or the
\* gateway answers with a ResultCode, and with the metadata or without, and
\* processMpesaResult runs from its call to its return (here with no other
\* handler in between), after which the answer is 200.
QueryPost(r) ==
  /\ r.pc = "q_post"
  /\ \/ /\ Respond(r, r, 500)
        /\ gateway' = QueryAnswered(gateway, r.cid, "error")
        /\ UNCHANGED <<orders, transactions, notifications, carts,
                        cartClears, clock, faults>>
     \/ \E in \in ResolveInputs :
          /\ in.cid = r.cid
          /\ Outcome(in.lookupOk)
          /\ gateway' = QueryAnswered(gateway, r.cid, in.rc)
          /\ Store(PollResolve(Stored, in, clock))
          /\ clock' = clock + 1
          /\ Respond(r, [r EXCEPT !.branch =
                            IF IsZeroNumberOrString(in.rc) THEN "success"
                            ELSE "failure"], 200)
  /\ UNCHANGED <<signals, env, routed, limiter, signed, inits, ini>>

\* ------------------------------------------------------- payment routes
\* An IP address as a request carries it: the address, with or without the
\* IPv4-mapped prefix '::ffff:'.
SafaricomIPs == {"196.201.214.200", "196.201.213.114"}
Addresses == SafaricomIPs \cup {"127.0.0.1", "41.90.64.10"}
IPs == [mapped : BOOLEAN, addr : Addresses]

\* Where a request comes from: the x-forwarded-for header (a comma-separated
\* list, <<>> when absent) and the socket's remote address.
Sources ==
  [forwarded : {<<>>} \cup {<<ip>> : ip \in IPs}
                     \cup {<<a, b>> : a, b \in [mapped : {FALSE},
                                                addr : {"196.201.214.200",
                                                        "41.90.64.10"}]},
   remote : [mapped : {TRUE}, addr : {"41.90.64.10", "127.0.0.1"}]]

\* requestIp after cleaning: the first entry of x-forwarded-for, else the
\* remote address, without a leading '::ffff:'.
RequestIp(src) ==
  IF src.forwarded # <<>> THEN src.forwarded[1].addr ELSE src.remote.addr

\* A guard that compares the address as the request carries it, prefix and
\* all.
safaricomIpWhitelistKeepsPrefix(src, e) ==
  LET first == IF src.forwarded # <<>> THEN src.forwarded[1] ELSE src.remote
      requestIp == IF first.mapped THEN "::ffff:" \o first.addr
                   ELSE first.addr
      isLocalhost == requestIp \in {"127.0.0.1", "::1"}
  IN IF e.nodeEnv = "development" \/ isLocalhost THEN "next"
     ELSE IF requestIp \in SafaricomIPs THEN "next"
     ELSE "403"

\* safaricomIpWhitelist: next() in development mode, for localhost and for
\* the listed addresses; 403 otherwise.
safaricomIpWhitelist(src, e) ==
  LET requestIp == RequestIp(src)
      isLocalhost == requestIp \in {"127.0.0.1", "::1"}
  IN IF e.nodeEnv = "development" \/ isLocalhost THEN "next"
     ELSE IF requestIp \in SafaricomIPs THEN "next"
     ELSE "403"

\* safaricomIpWhitelist(req, res, next) called for a request from some
\* source: the request is on record with what the guard did, next() or the
\* 403 answer.
GuardedRequest ==
  /\ signals < MaxSignals
  /\ signals' = signals + 1
  /\ \E src \in Sources :
       LET decision == safaricomIpWhitelist(src, env)
       IN /\ routed' = routed \cup {[src |-> src,
                                      next |-> decision = "next",
                                      status |-> IF decision = "403" THEN 403
                                                 ELSE 0]}
          /\ response' = IF decision = "403"
                         THEN [kind |-> "route", code |-> 403,
                               status |-> "none"]
                         ELSE response
  /\ UNCHANGED <<orders, transactions, notifications, carts, cartClears, h,
                 clock, faults, env, gateway, inits, ini, limiter, signed>>

\* router.post('/mpesa-callback', mpesaCallback): the handlers of the route,
\* in order.
CallbackRoute == <<"mpesaCallback">>

\* Express runs the handlers of a route in order; a middleware that answers
\* instead of calling next() ends the chain.
RECURSIVE Reaches(_, _, _, _)
Reaches(chain, handler, src, e) ==
  IF chain = <<>> THEN FALSE
  ELSE IF Head(chain) = handler THEN TRUE
  ELSE IF Head(chain) = "safaricomIpWhitelist"
          /\ safaricomIpWhitelist(src, e) = "403"
  THEN FALSE
  ELSE Reaches(Tail(chain), handler, src, e)

\* POST /payment/mpesa-callback from some source.
PostMpesaCallback ==
  \E src \in Sources :
    IF Reaches(CallbackRoute, "mpesaCallback", src, env)
    THEN /\ routed' = routed \cup {RequestIp(src)}
         /\ UNCHANGED <<limiter, signed>>
         /\ mpesaCallback
    ELSE /\ response' = [kind |-> "route", code |-> 403, status |-> "none"]
         /\ UNCHANGED <<orders, transactions, notifications, carts,
                         cartClears, h, clock, signals, faults, env, gateway,
                         inits, ini, routed, limiter, signed>>

\* ------------------------------------------------- the initiation route
\* authMiddleware: a request without a valid token is answered 401; with
\* one, req.user is the signed-in user.
authMiddleware(user) == IF user = NoUser THEN "401" ELSE "next"

\* rateLimit({windowMs: 1 * 60 * 1000, max: 3}), in ticks of half a minute.
\* No keyGenerator is given: the key of a request is its IP address.
WindowMs == 2
Max == 3
ClientIps == {"41.90.64.10", "105.160.20.7"}
NoHits == [totalHits |-> 0, resetTime |-> 0]

\* One more hit for a key at time now: the hits of a key are counted until
\* its window ends, the first hit after that opens a new window.  Hits
\* beyond the first one over the limit are not told apart.
Increment(store, key, now) ==
  IF store[key].resetTime <= now
  THEN [store EXCEPT ![key] = [totalHits |-> 1, resetTime |-> now + WindowMs]]
  ELSE [store EXCEPT ![key].totalHits =
          IF @ > Max THEN @ ELSE @ + 1]

\* stkLimiter: next() while the hits of the key are within max, 429 after.
stkLimiter(store, key) ==
  IF store[key].totalHits > Max THEN "429" ELSE "next"

\* The request body of the payment page: phone, amount, email, no orderId.
PageBody ==
  [rawPhone |-> <<"0">> \o Subscriber, rawAmount |-> JsNumber(Q(1300)),
   userEmail |-> TRUE, orderId |-> NoOrder]

\* A middleware answers and ends the chain.
TurnedAway(code) ==
  /\ response' = [kind |-> "route", code |-> code, status |-> "none"]
  /\ UNCHANGED <<orders, transactions, notifications, carts, cartClears, h,
                 clock, signals, faults, env, gateway, inits, ini, routed>>

\* router.post('/mpesa', authMiddleware, stkLimiter, initiateMpesaPayment):
\* a request of some user, or of nobody, from some address.
PostMpesa ==
  /\ ini.pc \in {"idle", "done"}
  /\ UNCHANGED signed
  /\ \E user \in Users \cup {NoUser}, ip \in ClientIps :
       IF authMiddleware(user) = "401"
       THEN TurnedAway(401) /\ UNCHANGED limiter
       ELSE LET store == Increment(limiter, ip, clock)
            IN /\ limiter' = store
               /\ IF stkLimiter(store, ip) = "429" THEN TurnedAway(429)
                  ELSE /\ inits < MaxRequests
                       /\ routed' = routed \cup {[n |-> inits + 1,
                                                   user |-> user, ip |-> ip,
                                                   at |-> clock]}
                       /\ Initiate(PageBody.rawPhone, PageBody.rawAmount,
                                   PageBody.userEmail, PageBody.orderId)

\* Time passes between two requests.
TimePasses ==
  /\ clock < MaxTime
  /\ clock' = clock + 1
  /\ UNCHANGED <<orders, transactions, notifications, carts, cartClears, h,
                 response, signals, faults, env, gateway, inits, ini, routed,
                 limiter, signed>>

\* ------------------------------------------------------- specification
\* The stored orders a callback or a poll result can meet: order 1 belongs
\* to a signed-in user and is as a live initiation left it (CheckoutRequestID
\* and reference stored); order 2 is a guest order as createOrder left it;
\* any further order is an initiated guest order.
Items1 ==
  <<[price |-> Q(500), quantity |-> 2], [price |-> Q(300), quantity |-> 1]>>
Items2 == <<[price |-> Q(250) + (Scale + 1) \div 2, quantity |-> 1]>>

\* The orders as createOrder stored them.
CreatedOrders ==
  [o \in OrderIds |->
     IF o = 1 THEN NewOrder("u1", "ann@example.com", Items1, 1300)
     ELSE NewOrder(NoUser, "guest@seekon.com", Items2, 250)]

Initiated(o, n) ==
  [o EXCEPT !.mpesaCheckoutRequestId = IssuedId(n),
            !.paymentReference = Reference(n)]

StoredOrders ==
  [o \in OrderIds |->
     IF o = 2 THEN CreatedOrders[o]
     ELSE Initiated(CreatedOrders[o], IF o = 1 THEN 1 ELSE 2)]

InitCommon ==
  /\ transactions = EmptyBag
  /\ notifications = EmptyBag
  /\ carts = [u \in Users |-> 2]
  /\ cartClears = EmptyBag
  /\ h = EmptyBag
  /\ response = NoResponse
  /\ clock = 1
  /\ signals = 0
  /\ faults = 0
  /\ gateway = <<>>
  /\ inits = 0
  /\ ini = IniIdle
  /\ routed = {}
  /\ limiter = [ip \in ClientIps |-> NoHits]
  /\ signed = NotSigned

Init ==
  /\ orders = StoredOrders
  /\ env = LiveEnv
  /\ InitCommon

Next ==
  \/ mpesaCallback /\ UNCHANGED <<routed, limiter, signed>>
  \/ processMpesaResult
  \/ \E r \in BagToSet(h) : CallbackCreateTransaction(r)
  \/ \E r \in BagToSet(h) : CallbackSaveOrder(r)
  \/ \E r \in BagToSet(h) : CallbackClearCart(r)
  \/ \E r \in BagToSet(h) : CallbackNotify(r)
  \/ \E r \in BagToSet(h) : CallbackFailSaveOrder(r)
  \/ \E r \in BagToSet(h) : PollCreateTransaction(r)
  \/ \E r \in BagToSet(h) : PollFindOrderAgain(r)
  \/ \E r \in BagToSet(h) : PollSaveOrder(r)
  \/ \E r \in BagToSet(h) : PollClearCart(r)
  \/ \E r \in BagToSet(h) : PollNotify(r)
  \/ \E r \in BagToSet(h) : PollFailSaveOrder(r)

Spec == Init /\ [][Next]_vars

\* Callbacks and poll results, each kind on its own: a behaviour consists of
\* callbacks or of poll results, with the handlers of that kind in flight
\* together.
OnlyKind(kind) ==
  /\ response.kind \in {"none", kind}
  /\ \A r \in BagToSet(h) : r.kind = kind

NextOneKind ==
  \/ OnlyKind("callback") /\ mpesaCallback /\ UNCHANGED <<routed, limiter, signed>>
  \/ OnlyKind("poll") /\ processMpesaResult
  \/ \E r \in BagToSet(h) : CallbackCreateTransaction(r)
  \/ \E r \in BagToSet(h) : CallbackSaveOrder(r)
  \/ \E r \in BagToSet(h) : CallbackClearCart(r)
  \/ \E r \in BagToSet(h) : CallbackNotify(r)
  \/ \E r \in BagToSet(h) : CallbackFailSaveOrder(r)
  \/ \E r \in BagToSet(h) : PollCreateTransaction(r)
  \/ \E r \in BagToSet(h) : PollFindOrderAgain(r)
  \/ \E r \in BagToSet(h) : PollSaveOrder(r)
  \/ \E r \in BagToSet(h) : PollClearCart(r)
  \/ \E r \in BagToSet(h) : PollNotify(r)
  \/ \E r \in BagToSet(h) : PollFailSaveOrder(r)

SpecOneKind == Init /\ [][NextOneKind]_vars

\* The callback endpoint as the router serves it, in development and in
\* production mode.
InitRoute ==
  /\ orders = StoredOrders
  /\ env \in {[LiveEnv EXCEPT !.nodeEnv = n] : n \in NodeEnvs}
  /\ InitCommon

NextRoute ==
  \/ PostMpesaCallback
  \/ \E r \in BagToSet(h) : CallbackCreateTransaction(r)
  \/ \E r \in BagToSet(h) : CallbackSaveOrder(r)
  \/ \E r \in BagToSet(h) : CallbackClearCart(r)
  \/ \E r \in BagToSet(h) : CallbackNotify(r)
  \/ \E r \in BagToSet(h) : CallbackFailSaveOrder(r)

SpecRoute == InitRoute /\ [][NextRoute]_vars

\* A live initiation together with the callbacks the gateway sends: the
\* callback for a push can arrive as soon as the gateway has accepted it.
InitLive ==
  /\ orders = CreatedOrders
  /\ env = LiveEnv
  /\ InitCommon

NextLive ==
  \/ initiateMpesaPayment
  \/ InitiateFindOrder
  \/ InitiateGetToken
  \/ InitiatePush
  \/ InitiateSaveCheckout
  \/ mpesaCallback /\ UNCHANGED <<routed, limiter, signed>>
  \/ \E r \in BagToSet(h) : CallbackCreateTransaction(r)
  \/ \E r \in BagToSet(h) : CallbackSaveOrder(r)
  \/ \E r \in BagToSet(h) : CallbackClearCart(r)
  \/ \E r \in BagToSet(h) : CallbackNotify(r)
  \/ \E r \in BagToSet(h) : CallbackFailSaveOrder(r)

SpecLive == InitLive /\ [][NextLive]_vars

\* The two endpoints that call the gateway, each on its own: a behaviour
\* consists of initiation requests or of status queries, under every
\* configuration of the production gateway settings (the handlers do not
\* read NODE_ENV; MPESA_ENVIRONMENT selects the URL and the passkey).
InitUpstream ==
  /\ orders = StoredOrders
  /\ env \in {e \in Envs : e.nodeEnv = "production" /\ ~e.sandbox}
  /\ InitCommon

NextUpstream ==
  \/ signals = 0 /\ initiateMpesaPayment
  \/ InitiateFindOrder
  \/ InitiateGetToken
  \/ InitiatePush
  \/ InitiateSaveCheckout
  \/ inits = 0 /\ queryMpesaTransaction
  \/ \E r \in BagToSet(h) : QueryGetToken(r)
  \/ \E r \in BagToSet(h) : QueryPost(r)

SpecUpstream == InitUpstream /\ [][NextUpstream]_vars

\* The initiation endpoint as the router serves it.
NextLimit ==
  \/ PostMpesa
  \/ TimePasses
  \/ InitiateGetToken
  \/ InitiatePush

SpecLimit == InitLive /\ [][NextLimit]_vars

\* The allowlist guard on its own, in development and in production mode.
NextGuard == GuardedRequest

SpecGuard == InitRoute /\ [][NextGuard]_vars

\* Several payment attempts for the stored orders, and the callbacks the
\* gateway sends for them.
NextAttempts ==
  \/ InitiateForOrder
  \/ InitiateFindOrder
  \/ InitiateGetToken
  \/ InitiatePush
  \/ InitiateSaveCheckout
  \/ mpesaCallback /\ UNCHANGED <<routed, limiter, signed>>
  \/ \E r \in BagToSet(h) : CallbackCreateTransaction(r)
  \/ \E r \in BagToSet(h) : CallbackSaveOrder(r)
  \/ \E r \in BagToSet(h) : CallbackClearCart(r)
  \/ \E r \in BagToSet(h) : CallbackNotify(r)
  \/ \E r \in BagToSet(h) : CallbackFailSaveOrder(r)

SpecAttempts == InitLive /\ [][NextAttempts]_vars

\* The request signer on its own, under every configuration.
InitSigner ==
  /\ orders = CreatedOrders
  /\ env \in Envs
  /\ InitCommon

NextSigner == SignRequest

SpecSigner == InitSigner /\ [][NextSigner]_vars

\* Callbacks and poll results handled one after the other.
NextResolve ==
  \/ ResolveViaCallback
  \/ ResolveViaPoll

SpecResolve == Init /\ [][NextResolve]_vars

\* The initiation handler alone, on orders that were never initiated, under
\* every configuration of the gateway settings; the handler does not read
\* NODE_ENV.
InitInitiate ==
  /\ orders = CreatedOrders
  /\ env \in {e \in Envs : e.nodeEnv = "production"}
  /\ InitCommon

NextInitiate ==
  \/ initiateMpesaPayment
  \/ InitiateFindOrder
  \/ InitiateGetToken
  \/ InitiatePush
  \/ InitiateSaveCheckout

SpecInitiate == InitInitiate /\ [][NextInitiate]_vars

\* ----------------------------------------------------------- properties
Handlers == BagToSet(h)

\* The handler took the success branch of its code.
OnSuccessPath(r) == r.branch = "success"

FailPcs == {"cb_fail_save", "pl_fail_save"}
SavePcs == {"cb_save", "pl_save"}
CreatePcs == {"cb_create", "pl_create"}

\* Number of documents of a collection that satisfy Test.
Count(bag, Test(_)) ==
  LET hits == {d \in BagToSet(bag) : Test(d)}
      RECURSIVE Sum(_)
      Sum(S) == IF S = {} THEN 0
                ELSE LET d == CHOOSE x \in S : TRUE
                     IN CopiesIn(d, bag) + Sum(S \ {d})
  IN Sum(hits)

TransactionsFor(c) ==
  Count(transactions, LAMBDA d : d.checkoutRequestID = c)
NotificationsFor(c) ==
  Count(notifications, LAMBDA d : d.checkoutRequestID = c)
CartClearsFor(c) ==
  Count(cartClears, LAMBDA d : d.checkoutRequestID = c /\ d.ok)

\* The step taken is a step of a handler that was at r.
StepOf(r) == CopiesIn(r, h') < CopiesIn(r, h)

\* The step taken brings a handler to a position in Pcs.
StepTo(Pcs) ==
  \E r \in BagToSet(h') : r.pc \in Pcs /\ CopiesIn(r, h') > CopiesIn(r, h)

\* C1: at most one Transaction exists per CheckoutRequestID, whatever
\* callbacks and poll results have been handled.
C1_OneTransactionPerCheckout ==
  \A c \in CheckoutIds : TransactionsFor(c) <= 1

\* C2: when two handlers in flight at the same time for the same
\* CheckoutRequestID, both on the success path, are both past their
\* Transaction.create, at most one Transaction exists for that id: the
\* second one skipped the creation.
C2_RaceCreatesOnce ==
  \A r, q \in Handlers :
    (/\ r # q \/ CopiesIn(r, h) >= 2
     /\ r.cid = q.cid /\ r.cid \in CheckoutIds
     /\ OnSuccessPath(r) /\ OnSuccessPath(q)
     /\ "transaction" \in r.attempted /\ "transaction" \in q.attempted)
    => TransactionsFor(r.cid) <= 1

\* C3: per CheckoutRequestID the cart is cleared at most once and at most
\* one 'Payment received' Notification is created.
C3_EffectsOnce ==
  \A c \in CheckoutIds : /\ CartClearsFor(c) <= 1
                         /\ NotificationsFor(c) <= 1

\* C4: once an order's isPaid is true no step of any callback or poll
\* handler sets it back to false.
C4_PaidNeverReverted ==
  [][\A o \in OrderIds : orders[o].isPaid => orders'[o].isPaid]_vars

\* C4 witness: a failure signal was applied to an order that is paid.
C4_Witness ==
  \E o \in OrderIds : orders[o].isPaid /\ orders[o].status = "cancelled"

\* C5: a failure handler that finds its order already paid and 'processing'
\* for the same CheckoutRequestID leaves the order's status alone.
C5_SucceededIsTerminal ==
  [][\A r \in Handlers :
       (/\ StepOf(r) /\ r.pc \in FailPcs
        /\ r.cid \in CheckoutIds
        /\ r.doc.mpesaCheckoutRequestId = r.cid
        /\ r.doc.isPaid /\ r.doc.status = "processing")
       => orders'[r.order].status = orders[r.order].status]_vars

\* C6: a success handler that finds its order already 'cancelled' for the
\* same CheckoutRequestID neither changes the order nor creates a
\* Transaction.
C6_FailedIsTerminal ==
  [][\A r \in Handlers :
       (/\ StepOf(r) /\ r.pc \in SavePcs \cup CreatePcs
        /\ r.order # NoOrder /\ r.cid \in CheckoutIds
        /\ r.doc.mpesaCheckoutRequestId = r.cid
        /\ r.doc.status = "cancelled")
       => /\ orders'[r.order] = orders[r.order]
          /\ transactions' = transactions]_vars

C8_CallbackAlways200 ==
  response.kind = "callback" => response.code = 200

\* C9: when order.save() fails in a success handler whose order belongs to a
\* signed-in user (the step of the save leaves the orders as they were),
\* the handler still goes on to the cart clearing.
C9_EffectsIndependent ==
  [][\A r \in Handlers :
       (/\ StepOf(r) /\ r.pc \in SavePcs /\ r.doc.user # NoUser
        /\ orders' = orders)
       => StepTo({"cb_cart", "pl_cart"})]_vars

\* v is the integer nearest to q/Scale, halves rounded up.
IsNearestInteger(v, q) ==
  2 * Scale * v - Scale <= 2 * q /\ 2 * q < 2 * Scale * v + Scale

PushesForOrder(o) ==
  {i \in DOMAIN gateway : gateway[i].request = "push" /\ gateway[i].orderId = o}

\* C10 as stated: outside sandbox every push sent for the orderId of a
\* stored order carries the rounded sum of the order's price * quantity,
\* whatever amount the caller supplied.
C10_AmountIsOrderTotal ==
  \A o \in OrderIds : \A i \in PushesForOrder(o) :
    ~env.sandbox =>
      /\ ~gateway[i].Amount.nan
      /\ IsNearestInteger(gateway[i].Amount.v, CalculatedTotal(orders[o].items))

\* C10 amended: the same, for the pushes of an initiation whose lookup
\* Order.findById returned the stored order.
C10_AmountIsOrderTotalWhenFound ==
  \A o \in OrderIds : \A i \in PushesForOrder(o) :
    (~env.sandbox /\ gateway[i].found) =>
      /\ ~gateway[i].Amount.nan
      /\ IsNearestInteger(gateway[i].Amount.v, CalculatedTotal(orders[o].items))

\* C10 witness: a push for order 1 (items 2 x 500 + 1 x 300) went out with
\* Amount 1300 although the caller supplied amount 1.
C10_Witness ==
  \E i \in PushesForOrder(1) :
    /\ ~env.sandbox /\ gateway[i].found
    /\ gateway[i].callerAmount = JsNumber(Q(1))
    /\ gateway[i].Amount = [nan |-> FALSE, v |-> 1300]

\* The source address is not in the gateway's allowlist (and is not
\* localhost, which the guard lets pass as well).
Foreign(ip) == ip \notin SafaricomIPs \cup {"127.0.0.1", "::1"}

\* C11: outside development mode, as long as every request sent to the
\* callback endpoint came from an address that is not in the allowlist, no
\* Order has changed and no Transaction exists.
C11_ForeignCallbackRejected ==
  (env.nodeEnv # "development" /\ \A ip \in routed : Foreign(ip))
  => orders = StoredOrders /\ transactions = EmptyBag

\* The pushes for a stored order that the gateway accepted with id c.
AcceptedPushes(c) ==
  {i \in DOMAIN gateway : /\ gateway[i].request = "push"
                          /\ c # Undefined
                          /\ gateway[i].CheckoutRequestID = c
                          /\ gateway[i].orderId \in OrderIds}

\* C12: a success callback that arrives after the gateway accepted the push
\* of an order-linked initiation, and whose lookup does not fail, finds the
\* order of that initiation by its CheckoutRequestID.
C12_CallbackFindsInitiatedOrder ==
  [][\A r \in BagToSet(h') :
       (/\ CopiesIn(r, h') > CopiesIn(r, h) /\ r.pc = "cb_create"
        /\ faults' = faults)
       => \A i \in AcceptedPushes(r.cid) : r.order = gateway[i].orderId]_vars

C14_SameResolve ==
  \A in \in ResolveInputs :
    LET a == CallbackResolve(Stored, in, clock)
        b == PollResolve(Stored, in, clock)
    IN /\ a.orders = b.orders
       /\ BagCardinality(a.transactions) = BagCardinality(b.transactions)
       /\ BagCardinality(a.notifications) = BagCardinality(b.notifications)

\* The request the initiation handler answered (or is working on): its email
\* is given and its phone normalizes to a 254 number.
ValidContact(r) ==
  r.userEmail /\ StartsWith(FormatPhone(r.rawPhone), <<"2", "5", "4">>)

\* The amount is a number, or a numeric string, above zero.
PositiveNumber(a) == a.type \in {"number", "string"} /\ a.q > 0

\* The consumer key, the consumer secret or the short code is absent.
CredentialsAbsent == ~env.consumerKey \/ ~env.consumerSecret \/ ~env.shortcode

MockAnswer(r) ==
  /\ r.response = 200 /\ r.mock
  /\ r.checkoutRequestID = "MOCK_CHECKOUT_123"

\* C15: without consumer key, consumer secret or short code no request
\* (token or push) ever reaches the gateway, no order is modified, and an
\* initiation with valid phone, email and amount is answered 200 with
\* mock = true and the synthetic checkoutRequestID.
C15_MockMode ==
  CredentialsAbsent =>
    /\ gateway = <<>>
    /\ orders = CreatedOrders
    /\ (ini.pc = "done" /\ ValidContact(ini) /\ PositiveNumber(ini.rawAmount))
         => MockAnswer(ini)

\* C15 witness: without credentials an initiation for the stored order 1
\* was answered with the mock response.
C15_Witness ==
  /\ CredentialsAbsent /\ ini.pc = "done" /\ MockAnswer(ini)
  /\ ini.orderId = 1 /\ ini.found /\ ini.rawAmount = JsNumber(Q(1300))
  /\ gateway = <<>> /\ orders = CreatedOrders

\* A configuration value the gateway calls need is missing; in sandbox the
\* built-in passkey stands in for a missing one.
ConfigurationMissing == CredentialsAbsent \/ (~env.sandbox /\ ~env.passkey)

\* C16: whenever a required configuration value (consumer key, consumer
\* secret, short code or passkey) is missing, an initiation with valid
\* phone, email and amount ends with the mock answer, not with an error.
C16_MissingConfigurationIsMock ==
  ConfigurationMissing =>
    ((ini.pc = "done" /\ ValidContact(ini) /\ PositiveNumber(ini.rawAmount))
      => MockAnswer(ini))

\* The normalization the claim describes: the characters that are digits,
\* in their order, with a leading 0 replaced by 254.
RECURSIVE StripNonDigits(_)
StripNonDigits(s) ==
  IF s = <<>> THEN <<>>
  ELSE IF Head(s) \in Digits THEN <<Head(s)>> \o StripNonDigits(Tail(s))
  ELSE StripNonDigits(Tail(s))

Normalized(s) ==
  LET d == StripNonDigits(s)
  IN IF d # <<>> /\ Head(d) = "0" THEN <<"2", "5", "4">> \o Tail(d) ELSE d

\* 07XXXXXXXX, +254XXXXXXXXX and 254XXXXXXXXX for the subscriber digits.
KenyanForms ==
  { <<"0">> \o Subscriber, <<"+", "2", "5", "4">> \o Subscriber,
    <<"2", "5", "4">> \o Subscriber }

LivePcs == {"in_token", "in_push", "in_update"}

\* C17: the phone the handler goes on with (and sends as PartyA) is the raw
\* phone with the non-digits stripped and a leading 0 replaced by 254; the
\* forms 07XXXXXXXX, +254XXXXXXXXX and 254XXXXXXXXX give 254 and the nine
\* subscriber digits and are not turned away for their phone; a request
\* whose normalized phone does not start with 254 is answered 400 and sends
\* nothing to the gateway.
C17_PhoneNormalization ==
  [][ini'.pc # "idle" =>
       LET n == Normalized(ini'.rawPhone)
       IN /\ ini'.pc \in LivePcs
               => /\ ini'.phone = n
                  /\ StartsWith(n, <<"2", "5", "4">>)
          /\ \A i \in DOMAIN gateway' \ DOMAIN gateway :
               gateway'[i].request = "push" => gateway'[i].PartyA = n
          /\ ini'.rawPhone \in KenyanForms
               => /\ ini'.pc \in LivePcs
                       => ini'.phone = <<"2", "5", "4">> \o Subscriber
                  /\ (ini'.pc = "done" /\ ini'.response = 400)
                       => ~ini'.userEmail \/ Falsy(ini'.rawAmount)
          /\ ~StartsWith(n, <<"2", "5", "4">>)
               => /\ gateway' = gateway
                  /\ ini'.pc \in {"done", "in_findById"}
                  /\ ini'.pc = "done" => ini'.response = 400]_vars

\* C17 witness: a push went out to 254712345678 for the raw phone
\* "0712 345-678"
C17_Witness ==
  /\ ini.pc = "in_push"
  /\ ini.rawPhone = <<"0", "7", "1", "2", " ", "3", "4", "5", "-", "6", "7", "8">>
  /\ gateway[Len(gateway)].request = "push"
  /\ gateway[Len(gateway)].PartyA = <<"2", "5", "4">> \o Subscriber

\* A request whose phone lacks the 254 (or the leading 0) was answered 400
\* and nothing was sent.
C17_Rejected ==
  /\ ini.pc = "done" /\ ini.response = 400 /\ ini.userEmail
  /\ ini.rawPhone = Subscriber
  /\ PositiveNumber(ini.rawAmount) /\ gateway = <<>>

Pushes == {i \in DOMAIN gateway : gateway[i].request = "push"}

\* C18: in sandbox every push carries Amount = 1, whatever the caller's
\* amount and the order's total; outside sandbox the Amount is the final
\* amount (the order's total when the order was found, else the caller's
\* amount) rounded to the nearest integer.
C18_PushAmount ==
  \A i \in Pushes :
    /\ env.sandbox => gateway[i].Amount = [nan |-> FALSE, v |-> 1]
    /\ (~env.sandbox /\ gateway[i].rawAmount.type \in {"number", "string"})
         => /\ ~gateway[i].Amount.nan
            /\ IsNearestInteger(gateway[i].Amount.v, gateway[i].rawAmount.q)

\* C18 witness: in sandbox a push for the found order 1, total 1300, went
\* out with Amount 1.
C18_Witness ==
  \E i \in Pushes :
    /\ env.sandbox /\ gateway[i].found /\ gateway[i].orderId = 1
    /\ gateway[i].rawAmount = JsNumber(Q(1300))
    /\ gateway[i].Amount = [nan |-> FALSE, v |-> 1]

\* Outside sandbox the caller's amount 99.5 went out as 100.
C18_Rounded ==
  \E i \in Pushes :
    /\ ~env.sandbox /\ ~gateway[i].found
    /\ gateway[i].rawAmount = JsNumber(Q(99) + Scale \div 2)
    /\ gateway[i].Amount = [nan |-> FALSE, v |-> 100]

\* C19: when the lookup of the orderId finds no order or raises an error,
\* the initiation goes on with the caller's amount as the final amount: it
\* is not answered 500, and with valid phone, email and amount it reaches
\* the gateway (or the mock answer) as a request without orderId does.
C19_LookupFailureFallsBack ==
  [][(ini.pc = "in_findById" /\ ~ini'.found) =>
       /\ ini'.rawAmount = ini.callerAmount
       /\ ini'.response # 500
       /\ ini'.pc \in {"in_token", "done"}
       /\ ini'.pc = "in_token"
            => /\ gateway' = Append(gateway, TokenRequest)
               /\ PositiveNumber(ini.callerAmount)
                    => IsNearestInteger(ini'.finalAmount.v, ini.callerAmount.q)
       /\ ini'.pc = "done"
            => \/ ini'.response = 400 /\ Falsy(ini.callerAmount)
               \/ ini'.response = 400 /\ ~ValidContact(ini)
               \/ CredentialsAbsent /\ MockAnswer(ini')]_vars

\* C19 witness: outside sandbox a push went out with the caller's amount
\* 1300 for an orderId no order has.
C19_Witness ==
  \E i \in Pushes :
    /\ ~env.sandbox /\ gateway[i].orderId = UnknownOrder /\ ~gateway[i].found
    /\ gateway[i].callerAmount = JsNumber(Q(1300))
    /\ gateway[i].Amount = [nan |-> FALSE, v |-> 1300]

\* The same for a stored order whose lookup threw.
C19_LookupThrew ==
  \E i \in Pushes :
    /\ ~env.sandbox /\ gateway[i].orderId = 2 /\ ~gateway[i].found
    /\ gateway[i].callerAmount = JsNumber(Q(1))
    /\ gateway[i].Amount = [nan |-> FALSE, v |-> 1]

\* C20: an initiation whose final amount is missing or is no positive
\* number (zero, negative, not numeric) sends nothing to the gateway and is
\* answered with a 4xx.
C20_AmountMustBePositive ==
  /\ ini.pc \in LivePcs => PositiveNumber(ini.rawAmount)
  /\ \A i \in Pushes : PositiveNumber(gateway[i].rawAmount)
  /\ (ini.pc = "done" /\ ~PositiveNumber(ini.rawAmount)) => ini.response = 400

\* The token requests of the log that were answered with a token, and the
\* push requests and status queries of the log.
Granted(log) ==
  {i \in DOMAIN log : log[i].request = "token" /\ log[i].answer = "yes"}
Sent(log) == {i \in DOMAIN log : log[i].request \in {"push", "query"}}
Refused(log) ==
  {i \in DOMAIN log : log[i].request = "token" /\ log[i].answer = "no"}

\* C21: no more push requests and status queries are sent than tokens were
\* obtained, and the step in which a token request fails sends nothing,
\* ends the handler with a 500 answer and leaves the orders and the
\* transactions as they were.
C21_TokenBeforeRequest ==
  [][/\ Cardinality(Sent(gateway')) <= Cardinality(Granted(gateway'))
     /\ Refused(gateway') # Refused(gateway)
          => /\ Len(gateway') = Len(gateway)
             /\ orders' = orders /\ transactions' = transactions
             /\ IF ini.pc = "in_token"
                THEN ini'.pc = "done" /\ ini'.response = 500
                ELSE /\ \E r \in Handlers : r.pc = "q_token" /\ StepOf(r)
                     /\ BagCardinality(h') < BagCardinality(h)
                     /\ response'.kind = "poll" /\ response'.code = 500]_vars

\* C21 witness: a status query ended with 500 after its token request
\* failed; no query went out.
C21_Witness ==
  /\ Refused(gateway) # {} /\ Sent(gateway) = {} /\ h = EmptyBag
  /\ response.kind = "poll" /\ response.code = 500
  /\ env.passkey

\* The same for an initiation.
C21_InitiationRefused ==
  /\ Refused(gateway) # {} /\ Sent(gateway) = {}
  /\ ini.pc = "done" /\ ini.response = 500 /\ env.passkey

\* No stored order carries the CheckoutRequestID c.
MatchesNoOrder(c) == \A o \in OrderIds : orders[o].mpesaCheckoutRequestId # c

\* C22: a success handler (callback or poll) whose CheckoutRequestID matches
\* no order changes no Order, Cart or Notification in any of its steps, and
\* its Transaction.create, unless the write itself fails, adds one
\* Transaction with status 'completed' whose user identifier is the payer
\* phone with '@mpesa.com', or 'unknown@seekon.com' when no phone came.
C22_OrphanSuccessRecorded ==
  [][\A r \in Handlers :
       (StepOf(r) /\ OnSuccessPath(r) /\ MatchesNoOrder(r.cid))
       => /\ orders' = orders /\ carts' = carts /\ cartClears' = cartClears
          /\ notifications' = notifications
          /\ (r.pc \in CreatePcs /\ faults' = faults)
               => \E t \in BagToSet(transactions') :
                    /\ transactions' = transactions (+) SetToBag({t})
                    /\ t.status = "completed"
                    /\ t.checkoutRequestID = r.cid
                    /\ t.userEmail = IF r.meta.phone # Undefined
                                     THEN r.meta.phone \o "@mpesa.com"
                                     ELSE "unknown@seekon.com"]_vars

\* C22 witness: a success signal for a CheckoutRequestID no order carries
\* has been handled; its Transaction names 254712345678@mpesa.com and the
\* orders, carts and notifications are as before.
C22_Witness ==
  /\ h = EmptyBag /\ faults = 0 /\ MatchesNoOrder("ws_CO_2")
  /\ \E t \in BagToSet(transactions) :
       /\ t.checkoutRequestID = "ws_CO_2" /\ t.status = "completed"
       /\ t.userEmail = "254712345678@mpesa.com"
  /\ orders = StoredOrders /\ notifications = EmptyBag
  /\ carts = [u \in Users |-> 2]

\* The status queries that get their answer in the step taken.
Answering ==
  {i \in DOMAIN gateway : /\ gateway[i].request = "query"
                          /\ gateway[i].answer = "pending"
                          /\ gateway'[i].answer # "pending"}

\* The result code is 0, sent as a number or as the string '0'.
IsZeroCode(rc) == rc \in {"0:number", "0:string"}

\* The orders linked to the CheckoutRequestID c.
Linked(c) == {o \in OrderIds : orders[o].mpesaCheckoutRequestId = c}

\* C23: when the gateway answers a status query with a result code, the
\* answer to the caller is 200 with status 'completed' if and only if the
\* code is 0; with code 0 the success effects are applied (a 'completed'
\* Transaction, the linked order paid and 'processing'); with every other
\* code no Transaction is created, the linked order becomes 'cancelled' and
\* the status reported is 'failed'.
C23_PollClassifiesByResultCode ==
  [][\A i \in Answering :
       gateway'[i].answer \in ResultCodes
       => LET rc == gateway'[i].answer
              c == gateway[i].CheckoutRequestID
          IN /\ response'.kind = "poll" /\ response'.code = 200
             /\ response'.status = "completed" <=> IsZeroCode(rc)
             /\ response'.status = "failed" <=> ~IsZeroCode(rc)
             /\ (faults' = faults /\ IsZeroCode(rc))
                  => /\ \E t \in BagToSet(transactions') :
                          /\ transactions' = transactions (+) SetToBag({t})
                          /\ t.status = "completed"
                          /\ t.checkoutRequestID = c
                     /\ \A o \in Linked(c) :
                          orders'[o].isPaid /\ orders'[o].status = "processing"
             /\ ~IsZeroCode(rc)
                  => /\ transactions' = transactions
                     /\ notifications' = notifications
                     /\ faults' = faults
                          => \A o \in Linked(c) :
                               orders'[o].status = "cancelled"]_vars

\* C23 witness: a status query for ws_CO_1 was answered with the string
\* '0' and reported 'completed'; order 1 is paid.
C23_Witness ==
  /\ \E i \in DOMAIN gateway :
       /\ gateway[i].request = "query" /\ gateway[i].answer = "0:string"
       /\ gateway[i].CheckoutRequestID = "ws_CO_1"
  /\ signals = 1 /\ h = EmptyBag /\ faults = 0
  /\ response.status = "completed"
  /\ orders[1].isPaid /\ orders[1].status = "processing"
  /\ transactions # EmptyBag

\* A status query answered with code 1032 reported 'failed' and cancelled
\* order 1.
C23_Failed ==
  /\ \E i \in DOMAIN gateway :
       /\ gateway[i].request = "query" /\ gateway[i].answer = "1032:number"
  /\ signals = 1 /\ h = EmptyBag /\ faults = 0
  /\ response.status = "failed"
  /\ orders[1].status = "cancelled" /\ transactions = EmptyBag

\* C24: within any one-minute window at most 3 initiation requests of the
\* same caller reach initiateMpesaPayment, and the gateway hears only of
\* requests that reached it.
HandedOver(u, t) ==
  {e \in routed : e.user = u /\ t <= e.at /\ e.at < t + WindowMs}

C24_ThreePerCallerPerMinute ==
  /\ \A u \in Users, t \in 1..MaxTime : Cardinality(HandedOver(u, t)) <= Max
  /\ Cardinality({i \in DOMAIN gateway : gateway[i].request = "token"})
       <= Cardinality(routed)

\* C25: when the push request fails, initiateMpesaPayment has sent this one
\* push and sends no other, answers 500, and writes nothing to the orders;
\* the reference of a failed push is stored on no order.
PushFails ==
  /\ ini.pc = "in_push"
  /\ gateway'[Len(gateway)].answer = "error"

PushesFor(log, reference) ==
  {i \in DOMAIN log : /\ log[i].request = "push"
                       /\ log[i].AccountReference = reference}

FailedReferences ==
  {gateway[i].AccountReference :
     i \in {j \in DOMAIN gateway : /\ gateway[j].request = "push"
                                    /\ gateway[j].answer = "error"}}

C25_PushFailureIsAnError ==
  /\ [][PushFails =>
          /\ ini'.pc = "done" /\ ini'.response = 500
          /\ Cardinality(PushesFor(gateway', ini.reference)) = 1
          /\ orders' = orders]_vars
  /\ [](\A ref \in FailedReferences :
          /\ Cardinality(PushesFor(gateway, ref)) = 1
          /\ \A o \in OrderIds : orders[o].paymentReference # ref)

C25_Witness ==
  /\ ini.pc = "done" /\ ini.response = 500 /\ ini.orderId \in OrderIds
  /\ gateway # <<>>
  /\ gateway[Len(gateway)].request = "push"
  /\ gateway[Len(gateway)].answer = "error"

\* C26: a failing Notification.create at the end of a successful
\* reconciliation changes neither the orders nor the Transactions, the order
\* stays paid, and the handler ends normally: 200 for the callback, 200 with
\* status 'completed' for the poll.
NotifyFails(r) ==
  /\ r.pc \in {"cb_notify", "pl_notify"}
  /\ h' = h (-) SetToBag({r})
  /\ faults' = faults + 1

C26_NotificationFailureIsHarmless ==
  [][\A r \in BagToSet(h) :
       NotifyFails(r) =>
         /\ orders' = orders /\ transactions' = transactions
         /\ orders'[r.order].isPaid
         /\ response'.kind = r.kind /\ response'.code = 200
         /\ r.kind = "poll" => response'.status = "completed"]_vars

C26_Witness ==
  /\ h = EmptyBag /\ faults = 1 /\ notifications = EmptyBag
  /\ transactions # EmptyBag
  /\ \E o \in OrderIds : orders[o].isPaid
  /\ \A c \in BagToSet(cartClears) : c.ok
  /\ response.code = 200

\* C27: once an order is paid, no step of a handler working on a signal for
\* the order's CheckoutRequestID changes its paidAt or its paymentResult.
C27_PaidOrderKeepsItsPayment ==
  [][\A r \in Handlers :
       (/\ StepOf(r) /\ r.cid \in CheckoutIds /\ r.order # NoOrder
        /\ orders[r.order].mpesaCheckoutRequestId = r.cid
        /\ orders[r.order].isPaid)
       => /\ orders'[r.order].paidAt = orders[r.order].paidAt
          /\ orders'[r.order].paymentResult = orders[r.order].paymentResult]_vars

\* C28: an order that is marked paid has a Transaction with status
\* 'completed' recorded for its CheckoutRequestID.
C28_PaidOrderHasTransaction ==
  \A o \in OrderIds :
    (orders[o].isPaid /\ orders[o].mpesaCheckoutRequestId \in CheckoutIds)
    => \E t \in BagToSet(transactions) :
         /\ t.checkoutRequestID = orders[o].mpesaCheckoutRequestId
         /\ t.status = "completed"

\* C29: no step of initiateMpesaPayment (a step that moves the initiation
\* handler) creates a Transaction or changes an order's isPaid, paidAt,
\* paymentResult, status or any other field but mpesaCheckoutRequestId and
\* paymentReference; these two are written only with the CheckoutRequestID
\* the gateway returned for the handler's push and with the reference of
\* that push.
AttemptFields == {"mpesaCheckoutRequestId", "paymentReference"}

IssuedFor(o) ==
  {i \in DOMAIN gateway :
     /\ gateway[i].request = "push"
     /\ gateway[i].CheckoutRequestID # Undefined
     /\ gateway[i].CheckoutRequestID = orders'[o].mpesaCheckoutRequestId
     /\ gateway[i].AccountReference = orders'[o].paymentReference}

C30_QueryFailureChangesNothing ==
  [][\A i \in Answering :
       gateway'[i].answer = "error"
       => /\ response'.kind = "poll" /\ response'.code = 500
          /\ response'.status = "none"
          /\ orders' = orders /\ transactions' = transactions
          /\ notifications' = notifications /\ carts' = carts]_vars

C30_Witness ==
  /\ \E i \in DOMAIN gateway :
       /\ gateway[i].request = "query" /\ gateway[i].answer = "error"
       /\ gateway[i].CheckoutRequestID = "ws_CO_1"
  /\ signals = 1 /\ h = EmptyBag
  /\ response.kind = "poll" /\ response.code = 500
  /\ orders = StoredOrders /\ transactions = EmptyBag

\* C31: for every request the guard either called next() or answered 403,
\* not both and not neither; it called next() exactly when NODE_ENV is
\* 'development', or the client address (first entry of x-forwarded-for,
\* else the socket address, without '::ffff:') is localhost or is in the
\* allowlist.
ClientAddress(src) ==
  IF src.forwarded # <<>> THEN src.forwarded[1].addr ELSE src.remote.addr

Allowed(src) ==
  \/ env.nodeEnv = "development"
  \/ ClientAddress(src) \in {"127.0.0.1", "::1"}
  \/ ClientAddress(src) \in SafaricomIPs

C31_GuardDecidesOnce ==
  \A q \in routed :
    /\ q.next <=> q.status # 403
    /\ q.next <=> Allowed(q.src)

\* C31 witness: in production mode the guard let a request pass whose
\* x-forwarded-for starts with a listed address in IPv4-mapped form, and
\* turned another one away.
C31_Witness ==
  /\ env.nodeEnv = "production"
  /\ \E q \in routed :
       /\ q.next /\ q.src.forwarded # <<>>
       /\ q.src.forwarded[1].mapped
       /\ q.src.forwarded[1].addr \in SafaricomIPs
  /\ \E q \in routed : q.status = 403

\* C32: the signer fails exactly when the short code is absent or no secret
\* is available (in sandbox the built-in passkey always is); otherwise its
\* password decodes from base64 to the short code, the secret (in sandbox
\* the built-in passkey, whatever is configured) and the timestamp in a row.
Base64Value(c) == (CHOOSE k \in 1..64 : Base64Alphabet[k] = c) - 1

RECURSIVE Base64Decode(_)
Base64Decode(chars) ==
  IF chars = <<>> THEN <<>>
  ELSE LET v1 == Base64Value(chars[1])
           v2 == Base64Value(chars[2])
           first == <<v1 * 4 + v2 \div 16>>
       IN IF chars[3] = "=" THEN first
          ELSE LET v3 == Base64Value(chars[3])
                   second == <<(v2 % 16) * 16 + v3 \div 4>>
               IN IF chars[4] = "=" THEN first \o second
                  ELSE first \o second
                       \o <<(v3 % 4) * 64 + Base64Value(chars[4])>>
                       \o Base64Decode(SubSeq(chars, 5, Len(chars)))

SecretAvailable == env.sandbox \/ env.passkey

C32_SignerResult ==
  signed # NotSigned =>
    /\ signed.error # "none" <=> (~env.shortcode \/ ~SecretAvailable)
    /\ signed.error = "none" =>
         Base64Decode(signed.password) =
           Bytes(ShortCodeValue
                 \o (IF env.sandbox THEN DefaultPasskey ELSE PasskeyValue)
                 \o signed.timestamp)

\* C32 witness: in sandbox, with no passkey configured, a password was
\* produced.
C32_Witness ==
  /\ signed # NotSigned /\ signed.error = "none"
  /\ env.sandbox /\ ~env.passkey
  /\ Len(signed.timestamp) = 14

\* C33: no step of a handler of a callback or of a poll result changes
\* isPaid or status of an order that has no CheckoutRequestID stored or a
\* stored one other than the signal's, whether or not the signal carries a
\* CheckoutRequestID.
C33_EffectsOnlyOnMatchingOrder ==
  [][\A r \in Handlers : \A o \in OrderIds :
       (/\ StepOf(r)
        /\ \/ orders[o].mpesaCheckoutRequestId = Undefined
           \/ orders[o].mpesaCheckoutRequestId # r.cid)
       => /\ orders'[o].isPaid = orders[o].isPaid
          /\ orders'[o].status = orders[o].status]_vars

\* C34: with every initiation completed and no persistence failure, a
\* success callback that carries a CheckoutRequestID the gateway issued for
\* an order-linked push, the latest or an earlier one, finds the order of
\* that push.
C34_IssuedIdStaysResolvable ==
  [][\A r \in BagToSet(h') :
       (/\ CopiesIn(r, h') > CopiesIn(r, h) /\ r.pc = "cb_create"
        /\ ini.pc \in {"idle", "done"} /\ faults' = 0)
       => \A i \in AcceptedPushes(r.cid) : r.order = gateway[i].orderId]_vars

\* C35: when initiateMpesaPayment answers an initiation for a stored order
\* with success and a CheckoutRequestID of the gateway, the order stores
\* that CheckoutRequestID.
C35_SuccessMeansStored ==
  [][(/\ ini.pc = "in_update" /\ ini.orderId \in OrderIds
      /\ ini'.pc = "done" /\ ini'.response = 200 /\ ~ini'.mock
      /\ ini'.checkoutRequestID # Undefined)
     => orders'[ini.orderId].mpesaCheckoutRequestId
          = ini'.checkoutRequestID]_vars

\* C36: outside sandbox a step of a handler of a success signal sets an
\* order's isPaid only when the signal carries an Amount, and this Amount
\* is at least the sum of price * quantity over the order's items (stated
\* for the signals that carry the CheckoutRequestID the order stores).
C36_PaidOnlyForFullAmount ==
  [][\A r \in Handlers :
       (/\ StepOf(r) /\ ~env.sandbox /\ r.order # NoOrder
        /\ r.cid \in CheckoutIds
        /\ orders[r.order].mpesaCheckoutRequestId = r.cid
        /\ ~orders[r.order].isPaid /\ orders'[r.order].isPaid)
       => /\ r.meta.amount # NoAmount
          /\ Q(r.meta.amount) >= CalculatedTotal(orders[r.order].items)]_vars

\* C37: a step by which initiateMpesaPayment answers 400 is taken before any
\* request of the handler to the gateway (from the start of the handler or
\* from the order lookup), and neither this step nor the start of the order
\* lookup before it sends a request to the gateway or changes an Order or a
\* Transaction; the same holds for the step by which queryMpesaTransaction
\* answers 400.
IniStep == inits' # inits \/ ini' # ini

NothingSentOrWritten ==
  /\ gateway' = gateway
  /\ orders' = orders
  /\ transactions' = transactions

QueryTurnedAway ==
  /\ signals' = signals + 1 /\ h' = h
  /\ response'.kind = "poll" /\ response'.code = 400

C37_RejectionTouchesNothing ==
  [][/\ (IniStep /\ ini'.pc = "done" /\ ini'.response = 400)
          => /\ ini.pc \in {"idle", "done", "in_findById"}
             /\ NothingSentOrWritten
     /\ (IniStep /\ ini'.pc = "in_findById") => NothingSentOrWritten
     /\ QueryTurnedAway => NothingSentOrWritten]_vars

\* C37 witness: an initiation for a stored order, which was looked up and
\* found, was answered 400; the gateway saw nothing and the orders are as
\* they were.
C37_Witness ==
  /\ ini.pc = "done" /\ ini.response = 400
  /\ ini.orderId \in OrderIds /\ ini.found
  /\ gateway = <<>> /\ orders = StoredOrders /\ transactions = EmptyBag

\* C37 witness of the query: a status query was answered 400.
C37_QueryRejected ==
  /\ response.kind = "poll" /\ response.code = 400
  /\ gateway = <<>> /\ orders = StoredOrders

====
